---------------------------- MODULE Spec2Model ----------------------------
(***************************************************************************)
(* Model of the garage tire server (src/unnamed/part_000, the same routes  *)
(* as the three versions kept in src/app.js): an Express application over  *)
(* three MongoDB collections (users, racks, tires).                        *)
(*                                                                         *)
(* Every request handler is an async function.  Node runs the code between *)
(* two awaits without interruption, so each action below is one such       *)
(* stretch, ending at the database operation (or the catalog lookup) the   *)
(* handler awaits.  Requests in different slots interleave at these        *)
(* points, exactly as they do in the event loop.                           *)
(*                                                                         *)
(* Data conventions.                                                       *)
(*  - A JavaScript string is a sequence of one-character strings, so that  *)
(*    trim() and toUpperCase() are computed character by character.        *)
(*  - null / undefined is Null where a string is expected and None where   *)
(*    a document or an object is expected.                                 *)
(*  - Widths are integers counted in tenths of the rack unit: the handler  *)
(*    computes width = parseFloat(widthMm) / 10, so a catalog width in     *)
(*    millimetres is the tire width in tenths, and a rack of totalWidth 20 *)
(*    is 200 here.                                                         *)
(***************************************************************************)
EXTENDS Integers, Sequences, FiniteSets, TLC

VARIABLES users, racks, tires, nextTireId, reqs, journal, eprelDataCache

vars == <<users, racks, tires, nextTireId, reqs, journal, eprelDataCache>>

-----------------------------------------------------------------------------
(* Bounds of the model *)

\* racks and tire documents created over a run of the server with
\* overlapping requests (ObjectIds are never reused)
MaxRacks == 1
MaxTires == 2
\* the same, over a run of the server with its requests one at a time
SeqMaxRacks == 2
SeqMaxTires == 3
\* the same, over a run in which the client keeps its journal
JournalMaxRacks == 1
JournalMaxTires == 3
\* the same, over a run in which the placements are kept apart
SerializedMaxRacks == 2
SerializedMaxTires == 2
\* the same, over a run in which placement decisions are tried out
DecisionMaxRacks == 2
DecisionMaxTires == 2
\* the same, over a run of the server that keeps the catalog cache
CacheMaxRacks == 1
CacheMaxTires == 2

\* request slots: requests that can be in flight at the same time
Slots == {1, 2}

-----------------------------------------------------------------------------
(* Values *)

Null == <<"null">>
None == [none |-> TRUE]

LowerChars == {"a", "b", "c", "m", "x", "y"}
Space == " "

GoodToken == <<"Bearer user1_token">>
BadToken == <<"Bearer other_token">>
Tokens == {GoodToken, BadToken}

GarageEmail == <<"garage@test.com">>

\* catalog codes used in requests
CodeABC == <<"A", "B", "C", "1", "2", "3">>
CodeDEF == <<"D", "E", "F">>
CodeGHI == <<"G", "H", "I">>
CodeBadPage == <<"B", "A", "D">>
CodeUnknown == <<"N", "O">>
EmptyString == <<>>

\* What the product page of the external catalog shows for a code: the brand
\* element (marque), the model name (nom) and the dimension text already split
\* as the handler's regular expression (\d+)/(\d+)\s*R\s*(\d+) splits it.
\* Null / None: the element is not on the page.
CatalogPage(code) ==
    CASE code = CodeABC ->
            [marque |-> <<"x">>, nom |-> <<"m", "1">>,
             dimension |-> [widthMm |-> 200, aspectRatio |-> 55, diameter |-> 16]]
      [] code = CodeDEF ->
            [marque |-> <<"Y">>, nom |-> Null,
             dimension |-> [widthMm |-> 200, aspectRatio |-> 60, diameter |-> 17]]
      [] code = CodeGHI ->
            [marque |-> <<"X">>, nom |-> <<"m", "3">>,
             dimension |-> [widthMm |-> 10, aspectRatio |-> 50, diameter |-> 15]]
      [] code = CodeBadPage ->
            [marque |-> Null, nom |-> <<"m", "4">>,
             dimension |-> [widthMm |-> 200, aspectRatio |-> 55, diameter |-> 16]]
      [] OTHER ->
            [marque |-> Null, nom |-> Null, dimension |-> None]

-----------------------------------------------------------------------------
(* JavaScript string operations *)

\* String.prototype.toUpperCase, one character
UpperChar(c) ==
    CASE c = "a" -> "A"
      [] c = "b" -> "B"
      [] c = "c" -> "C"
      [] c = "m" -> "M"
      [] c = "x" -> "X"
      [] c = "y" -> "Y"
      [] OTHER -> c

\* String.prototype.toUpperCase
ToUpperCase(s) == [i \in 1..Len(s) |-> UpperChar(s[i])]

RECURSIVE TrimStart(_)
TrimStart(s) ==
    IF s # <<>> /\ Head(s) = Space THEN TrimStart(Tail(s)) ELSE s

RECURSIVE TrimEnd(_)
TrimEnd(s) ==
    IF s # <<>> /\ s[Len(s)] = Space THEN TrimEnd(SubSeq(s, 1, Len(s) - 1)) ELSE s

\* String.prototype.trim
Trim(s) == TrimEnd(TrimStart(s))

\* Truthy testing for null only (eprelCode == null for !eprelCode)
TruthyNonNull(v) == v # Null

\* JavaScript truthiness of a string-or-null value: null and "" are falsy
Truthy(v) == v # Null /\ v # <<>>

\* new RegExp(query, 'i') throws a SyntaxError on these patterns: a group
\* that is opened and never closed
RegExpThrows(query) == \E i \in 1..Len(query) : query[i] = "("

\* one pattern character against one character of the text, flag i:
\* "." matches every character, any other character matches itself in
\* either case
RegExpCharMatches(pc, c) == pc = "." \/ UpperChar(pc) = UpperChar(c)

\* new RegExp(query, 'i').test(text) for patterns made of plain characters
\* and ".": the pattern matches somewhere in the text (it is not anchored)
RegExpTest(query, text) ==
    \E start \in 1..(Len(text) - Len(query) + 1) :
        \A j \in 1..Len(query) : RegExpCharMatches(query[j], text[start + j - 1])

-----------------------------------------------------------------------------
(* Catalog lookup *)

\* getText(selector): textContent.trim() || null
GetText(raw) == IF raw = Null \/ Trim(raw) = <<>> THEN Null ELSE Trim(raw)

\* GetEprelData answering with default values where the page gives none,
\* the two tests that return null left out
GetEprelDataUnchecked(eprelCode, reachable) ==
    IF ~reachable THEN None
    ELSE LET page == CatalogPage(eprelCode)
             brand == GetText(page.marque)
             model == GetText(page.nom)
         IN  [brand |-> IF Truthy(brand) THEN brand ELSE <<"N", "/", "A">>,
              model |-> IF Truthy(model) THEN model ELSE <<"N", "/", "A">>,
              width |-> IF page.dimension = None THEN 0 ELSE page.dimension.widthMm,
              aspectRatio |-> IF page.dimension = None THEN 0 ELSE page.dimension.aspectRatio,
              diameter |-> IF page.dimension = None THEN 0 ELSE page.dimension.diameter]

\* getEprelData(eprelCode).  reachable = FALSE stands for every path into the
\* catch block (browser launch, navigation or evaluation throwing, a timeout).
\* The result is the resolved attributes, or None for the function's null.
GetEprelData(eprelCode, reachable) ==
    IF ~reachable THEN None
    ELSE LET page == CatalogPage(eprelCode)
             brand == GetText(page.marque)
             model == GetText(page.nom)
         IN  IF ~Truthy(brand) \/ page.dimension = None THEN None
             ELSE [brand |-> brand,
                   model |-> IF Truthy(model) THEN model ELSE <<"N", "/", "A">>,
                   width |-> page.dimension.widthMm,
                   aspectRatio |-> page.dimension.aspectRatio,
                   diameter |-> page.dimension.diameter]

-----------------------------------------------------------------------------
(* Mongoose schemas and queries *)

\* rackSchema.reservedForBrand: { type: String, trim: true, uppercase: true }
\* (the setters run on every string assigned to the path; null is kept)
ReservedForBrandSetter(v) == IF v = Null THEN Null ELSE ToUpperCase(Trim(v))

\* NewRack with the reservation stored as it was sent
NewRackAsSent(body, userId, id) ==
    [id |-> id,
     name |-> body.name,
     totalWidth |-> body.totalWidth,
     isDouble |-> body.isDouble,
     reservedForBrand |-> body.reservedForBrand,
     userId |-> userId]

\* new Rack({...}) in POST /racks
NewRack(body, userId, id) ==
    [id |-> id,
     name |-> body.name,
     totalWidth |-> body.totalWidth,
     isDouble |-> body.isDouble,
     reservedForBrand |->
        ReservedForBrandSetter(IF Truthy(body.reservedForBrand)
                               THEN ToUpperCase(Trim(body.reservedForBrand))
                               ELSE Null),
     userId |-> userId]

\* Validation run by newRack.save(): name is a required String (mongoose
\* rejects null and ""), totalWidth a required Number (every number passes,
\* the schema sets no min).
RackValidates(doc) == doc.name # Null /\ doc.name # <<>>

\* Rack.find({ userId }): the user's racks, in insertion order
RackFind(userId) ==
    LET Mine(r) == r.userId = userId
    IN  SelectSeq(racks, Mine)

\* TireFind with the userId condition left out of the query
TireFindAnyOwner(userId) == {t \in tires : t.location # None}

\* Tire.find({ userId, location: { $ne: null } })
TireFind(userId) == {t \in tires : t.userId = userId /\ t.location # None}

\* NewTire with the location left out of the document
NewTireUnplaced(tireData, eprelCode, userId, location, id) ==
    [id |-> id,
     eprelCode |-> eprelCode,
     brand |-> tireData.brand,
     model |-> tireData.model,
     width |-> tireData.width,
     aspectRatio |-> tireData.aspectRatio,
     diameter |-> tireData.diameter,
     userId |-> userId,
     location |-> None]

\* new Tire({ ...tireData, eprelCode, userId, location }) in POST /tires
NewTire(tireData, eprelCode, userId, location, id) ==
    [id |-> id,
     eprelCode |-> eprelCode,
     brand |-> tireData.brand,
     model |-> tireData.model,
     width |-> tireData.width,
     aspectRatio |-> tireData.aspectRatio,
     diameter |-> tireData.diameter,
     userId |-> userId,
     location |-> location]

-----------------------------------------------------------------------------
(* Placement decision of POST /tires *)

RECURSIVE SumWidth(_)
\* reduce((sum, t) => sum + t.width, 0)
SumWidth(S) ==
    IF S = {} THEN 0
    ELSE LET t == CHOOSE x \in S : TRUE IN t.width + SumWidth(S \ {t})

\* storedTires.filter(t => t.location.rackId.equals(rack._id) && t.location.row === row)
TiresAt(storedTires, rackId, row) ==
    {t \in storedTires : t.location.rackId = rackId /\ t.location.row = row}

\* IsEligible with the test on the reservation left out
IsEligibleAlways(rack, tireBrandUpper) == TRUE

\* !rack.reservedForBrand || rack.reservedForBrand === tireBrandUpper
IsEligible(rack, tireBrandUpper) ==
    ~Truthy(rack.reservedForBrand) \/ rack.reservedForBrand = tireBrandUpper

\* EligibleRacks comparing the reservation with the brand as the catalog
\* writes it, toUpperCase() forgotten
EligibleRacksBrandAsWritten(userRacks, tireData) ==
    LET Keep(rack) == IsEligible(rack, tireData.brand)
    IN  SelectSeq(userRacks, Keep)

\* userRacks.filter(...)
EligibleRacks(userRacks, tireData) ==
    LET tireBrandUpper == ToUpperCase(tireData.brand)
        Keep(rack) == IsEligible(rack, tireBrandUpper)
    IN  SelectSeq(userRacks, Keep)

\* DoubleRacks with the filter on isDouble left out
DoubleRacksUnfiltered(eligibleRacks) == eligibleRacks

\* the racks the first loop iterates over: eligibleRacks.filter(r => r.isDouble)
DoubleRacks(eligibleRacks) ==
    LET Keep(r) == r.isDouble
    IN  SelectSeq(eligibleRacks, Keep)

\* FitsBehind with > for >= in the capacity test
FitsBehindStrict(rack, storedTires, tireData, eprelCode) ==
    LET frontTiresOfSameType ==
            {t \in TiresAt(storedTires, rack.id, "front") : t.eprelCode = eprelCode}
        backTiresOfSameType ==
            {t \in TiresAt(storedTires, rack.id, "back") : t.eprelCode = eprelCode}
        occupiedWidthBack == SumWidth(TiresAt(storedTires, rack.id, "back"))
    IN  /\ Cardinality(frontTiresOfSameType) > Cardinality(backTiresOfSameType)
        /\ rack.totalWidth - occupiedWidthBack > tireData.width

\* FitsBehind measuring the room of the back row with the front row's tires
FitsBehindFrontWidth(rack, storedTires, tireData, eprelCode) ==
    LET frontTiresOfSameType ==
            {t \in TiresAt(storedTires, rack.id, "front") : t.eprelCode = eprelCode}
        backTiresOfSameType ==
            {t \in TiresAt(storedTires, rack.id, "back") : t.eprelCode = eprelCode}
        occupiedWidthBack == SumWidth(TiresAt(storedTires, rack.id, "front"))
    IN  /\ Cardinality(frontTiresOfSameType) > Cardinality(backTiresOfSameType)
        /\ rack.totalWidth - occupiedWidthBack >= tireData.width

\* FitsBehind asking for any identical tire in front (frontCount > 0 for
\* frontCount > backCount)
FitsBehindAnyFront(rack, storedTires, tireData, eprelCode) ==
    LET frontTiresOfSameType ==
            {t \in TiresAt(storedTires, rack.id, "front") : t.eprelCode = eprelCode}
        occupiedWidthBack == SumWidth(TiresAt(storedTires, rack.id, "back"))
    IN  /\ Cardinality(frontTiresOfSameType) > 0
        /\ rack.totalWidth - occupiedWidthBack >= tireData.width

\* FitsBehind with >= for > in the test on the counts: a rack with as many
\* identical tires behind as in front, none at all included, qualifies
FitsBehindCountsEqual(rack, storedTires, tireData, eprelCode) ==
    LET frontTiresOfSameType ==
            {t \in TiresAt(storedTires, rack.id, "front") : t.eprelCode = eprelCode}
        backTiresOfSameType ==
            {t \in TiresAt(storedTires, rack.id, "back") : t.eprelCode = eprelCode}
        occupiedWidthBack == SumWidth(TiresAt(storedTires, rack.id, "back"))
    IN  /\ Cardinality(frontTiresOfSameType) >= Cardinality(backTiresOfSameType)
        /\ rack.totalWidth - occupiedWidthBack >= tireData.width

\* body of the first loop: the rack takes the tire in its back row
FitsBehind(rack, storedTires, tireData, eprelCode) ==
    LET frontTiresOfSameType ==
            {t \in TiresAt(storedTires, rack.id, "front") : t.eprelCode = eprelCode}
        backTiresOfSameType ==
            {t \in TiresAt(storedTires, rack.id, "back") : t.eprelCode = eprelCode}
        occupiedWidthBack == SumWidth(TiresAt(storedTires, rack.id, "back"))
    IN  /\ Cardinality(frontTiresOfSameType) > Cardinality(backTiresOfSameType)
        /\ rack.totalWidth - occupiedWidthBack >= tireData.width

\* FitsInFront with > for >= in the capacity test
FitsInFrontStrict(rack, storedTires, tireData) ==
    LET occupiedWidthFront == SumWidth(TiresAt(storedTires, rack.id, "front"))
    IN  rack.totalWidth - occupiedWidthFront > tireData.width

\* FitsInFront measuring the room of the front row with the back row's tires
FitsInFrontBackWidth(rack, storedTires, tireData) ==
    LET occupiedWidthFront == SumWidth(TiresAt(storedTires, rack.id, "back"))
    IN  rack.totalWidth - occupiedWidthFront >= tireData.width

\* FitsInFront taking only a tire that fills the row exactly (=== for >=)
FitsInFrontExact(rack, storedTires, tireData) ==
    LET occupiedWidthFront == SumWidth(TiresAt(storedTires, rack.id, "front"))
    IN  rack.totalWidth - occupiedWidthFront = tireData.width

\* body of the second loop: the rack takes the tire in its front row
FitsInFront(rack, storedTires, tireData) ==
    LET occupiedWidthFront == SumWidth(TiresAt(storedTires, rack.id, "front"))
    IN  rack.totalWidth - occupiedWidthFront >= tireData.width

\* a for ... of loop that breaks at the first element passing the test
FirstIndex(n, Test(_)) ==
    LET hits == {i \in 1..n : Test(i)}
    IN  IF hits = {} THEN 0 ELSE CHOOSE i \in hits : \A j \in hits : i <= j

\* Strategie 1: behind an identical tire, in an eligible double rack
Strategy1(eligibleRacks, storedTires, tireData, eprelCode) ==
    LET doubles == DoubleRacks(eligibleRacks)
        Test(k) == FitsBehind(doubles[k], storedTires, tireData, eprelCode)
        i == FirstIndex(Len(doubles), Test)
    IN  IF i = 0 THEN None ELSE [rackId |-> doubles[i].id, row |-> "back"]

\* Strategy2 keeping the last rack that passes the test, the break forgotten
Strategy2NoBreak(eligibleRacks, storedTires, tireData) ==
    LET hits == {k \in 1..Len(eligibleRacks) :
                    FitsInFront(eligibleRacks[k], storedTires, tireData)}
        i == IF hits = {} THEN 0 ELSE CHOOSE k \in hits : \A j \in hits : j <= k
    IN  IF i = 0 THEN None ELSE [rackId |-> eligibleRacks[i].id, row |-> "front"]

\* Strategy2 iterating over the double racks only, as the first loop does
Strategy2DoublesOnly(eligibleRacks, storedTires, tireData) ==
    LET doubles == DoubleRacks(eligibleRacks)
        hits == {k \in 1..Len(doubles) : FitsInFront(doubles[k], storedTires, tireData)}
        i == IF hits = {} THEN 0 ELSE CHOOSE k \in hits : \A j \in hits : k <= j
    IN  IF i = 0 THEN None ELSE [rackId |-> doubles[i].id, row |-> "front"]

\* Strategie 2: front row of an eligible rack
Strategy2(eligibleRacks, storedTires, tireData) ==
    LET Test(k) == FitsInFront(eligibleRacks[k], storedTires, tireData)
        i == FirstIndex(Len(eligibleRacks), Test)
    IN  IF i = 0 THEN None ELSE [rackId |-> eligibleRacks[i].id, row |-> "front"]

\* FindLocation with the second loop running over userRacks, the racks the
\* brand filter removed included
FindLocationFallbackUnfiltered(userRacks, storedTires, tireData, eprelCode) ==
    LET eligibleRacks == EligibleRacks(userRacks, tireData)
        behind == Strategy1(eligibleRacks, storedTires, tireData, eprelCode)
    IN  IF behind # None THEN behind
        ELSE Strategy2(userRacks, storedTires, tireData)

\* foundLocation after both loops
FindLocation(userRacks, storedTires, tireData, eprelCode) ==
    LET eligibleRacks == EligibleRacks(userRacks, tireData)
        behind == Strategy1(eligibleRacks, storedTires, tireData, eprelCode)
    IN  IF behind # None THEN behind
        ELSE Strategy2(eligibleRacks, storedTires, tireData)

-----------------------------------------------------------------------------
(* Requests *)

\* bodies of POST /racks
RackBodies ==
    { [name |-> <<>>, totalWidth |-> 200, isDouble |-> FALSE, reservedForBrand |-> Null],
      [name |-> <<"A">>, totalWidth |-> -10, isDouble |-> FALSE, reservedForBrand |-> Null],
      [name |-> <<"A">>, totalWidth |-> 0, isDouble |-> TRUE, reservedForBrand |-> <<>>],
      [name |-> <<"A">>, totalWidth |-> 200, isDouble |-> FALSE, reservedForBrand |-> Null],
      [name |-> <<"A">>, totalWidth |-> 250, isDouble |-> TRUE, reservedForBrand |-> Null],
      [name |-> <<"A">>, totalWidth |-> 200, isDouble |-> TRUE, reservedForBrand |-> <<" ", "x">>],
      [name |-> <<"A">>, totalWidth |-> 200, isDouble |-> FALSE, reservedForBrand |-> <<" ">>] }

\* bodies of POST /tires; Null: the body has no eprelCode
TireBodies ==
    { [eprelCode |-> c] : c \in {Null, EmptyString, CodeABC, CodeDEF, CodeGHI, CodeUnknown} }

\* :id of DELETE /tires/:id: 0 is a text that is no ObjectId, nextTireId an
\* ObjectId no tire has, the others the tires created so far
TireIds == 0..nextTireId

\* ?query= of GET /tires/search
Queries == {EmptyString, <<"a", "b", "c">>, <<".">>, <<"(">>}

\* mongoose.Types.ObjectId.isValid(id)
IsValidObjectId(id) == id # 0

\* let eprelDataCache = {}: attribute records by catalog code
EmptyCache == [code \in {} |-> None]

\* eprelDataCache[eprelCode] = tireInfo
CachePut(cache, eprelCode, tireInfo) ==
    [code \in DOMAIN cache \cup {eprelCode} |->
        IF code = eprelCode THEN tireInfo ELSE cache[code]]

IdleReq ==
    [pc |-> "idle", op |-> "none", token |-> Null, body |-> None, user |-> None,
     tireData |-> None, userRacks |-> <<>>, storedTires |-> {},
     foundLocation |-> None, status |-> 0, resBody |-> None]

InFlight(op) == Cardinality({q \in Slots : reqs[q].op = op /\ reqs[q].pc # "done"})

\* res.status(status).json(resBody): the request is answered
Answer(p, status, resBody) ==
    reqs' = [reqs EXCEPT ![p].pc = "done", ![p].status = status, ![p].resBody = resBody]

\* The journal of the garage's client: the placements refused since the
\* store last changed and, once it has deleted a tire as wide as one of them,
\* that tire with the refusals of that width.  Any other change of the store
\* empties it.  The client keeps it in JournalSpec only; it is JournalOff in
\* the other specifications.
JournalOff == [off |-> TRUE]
JournalEmpty == [refused |-> {}, freed |-> None]

Forgotten == IF journal = JournalOff THEN JournalOff ELSE JournalEmpty

WithRefusal(eprelCode, tireData) ==
    IF journal = JournalOff \/ journal.freed # None THEN journal
    ELSE [journal EXCEPT !.refused = @ \cup {[code |-> eprelCode, width |-> tireData.width]}]

WithDeletion(deletedTire) ==
    IF journal = JournalOff THEN JournalOff
    ELSE LET alike == {r \in journal.refused : r.width = deletedTire.width}
         IN  IF journal.freed = None /\ alike # {}
             THEN [refused |-> alike, freed |-> deletedTire]
             ELSE JournalEmpty

Init ==
    /\ users = {}
    /\ racks = <<>>
    /\ tires = {}
    /\ nextTireId = 1
    /\ reqs = [p \in Slots |-> IdleReq]
    /\ journal = JournalOff
    /\ eprelDataCache = EmptyCache

\* no answer is waiting to be collected
Quiet == \A q \in Slots : reqs[q].pc # "done"

\* no request is in flight
Alone == \A q \in Slots : reqs[q].pc = "idle"

\* IsExpectedToken accepting every request that carries an Authorization
\* header (if (token) for the comparison)
IsExpectedTokenPresent(token) == token # Null

\* authenticate, the test of the Authorization header
IsExpectedToken(token) == token = GoodToken

\* A request arrives, takes the lowest free slot, and authenticate runs up to
\* the end of User.findOne (nothing of the request shows before that).  An
\* answer leaves the server in the step that sends it, so Close is the only
\* step taken while an answer is pending: every other action waits for Quiet.
Authenticate(p, op, token, body) ==
    /\ Quiet
    /\ reqs[p].pc = "idle"
    /\ \A q \in Slots : q < p => reqs[q].pc # "idle"
    /\ LET req == [IdleReq EXCEPT !.op = op, !.token = token, !.body = body]
       IN  IF ~IsExpectedToken(token)
           THEN reqs' = [reqs EXCEPT ![p] =
                           [req EXCEPT !.pc = "done", !.status = 401,
                                       !.resBody = [message |-> "Acces non autorise."]]]
           ELSE IF \E u \in users : u.email = GarageEmail
                THEN reqs' = [reqs EXCEPT ![p] =
                                [req EXCEPT !.pc = "run",
                                            !.user = CHOOSE u \in users : u.email = GarageEmail]]
                ELSE reqs' = [reqs EXCEPT ![p] = [req EXCEPT !.pc = "authSave"]]
    /\ UNCHANGED <<users, racks, tires, nextTireId, journal, eprelDataCache>>

\* The body is not read when the token is refused: one body stands for all.
Inputs(bodies) ==
    {<<GoodToken, b>> : b \in bodies} \cup {<<BadToken, CHOOSE b \in bodies : TRUE>>}

ArriveCreateRack(p) ==
    /\ Len(racks) + InFlight("createRack") < MaxRacks
    /\ \E in \in Inputs(RackBodies) : Authenticate(p, "createRack", in[1], in[2])

ArrivePlaceNewTire(p) ==
    /\ nextTireId + InFlight("placeNewTire") <= MaxTires
    /\ \E in \in Inputs(TireBodies) : Authenticate(p, "placeNewTire", in[1], in[2])

ArriveDeleteTire(p) ==
    \E in \in Inputs({[id |-> id] : id \in TireIds}) : Authenticate(p, "deleteTire", in[1], in[2])

ArriveListRacks(p) ==
    \E in \in Inputs({None}) : Authenticate(p, "listRacks", in[1], in[2])

ArriveSearchTires(p) ==
    \E in \in Inputs({[query |-> q] : q \in Queries}) :
        Authenticate(p, "searchTires", in[1], in[2])

\* authenticate, user.save() of the account created on first use; email is
\* a unique index, so the save of a second document throws
AuthSave(p) ==
    /\ Quiet
    /\ reqs[p].pc = "authSave"
    /\ IF \E u \in users : u.email = GarageEmail
       THEN /\ Answer(p, 500, [message |-> "Erreur serveur lors de l'authentification"])
            /\ UNCHANGED users
       ELSE LET user == [id |-> Cardinality(users) + 1, email |-> GarageEmail]
            IN  /\ users' = users \cup {user}
                /\ reqs' = [reqs EXCEPT ![p].pc = "run", ![p].user = user]
    /\ UNCHANGED <<racks, tires, nextTireId, journal, eprelDataCache>>

\* CreateRack saving with an upsert on (userId, name): a rack of that name is
\* replaced by the new document
CreateRackReplacing(p) ==
    /\ Quiet
    /\ reqs[p].pc = "run" /\ reqs[p].op = "createRack"
    /\ LET same == {i \in 1..Len(racks) : /\ racks[i].userId = reqs[p].user.id
                                          /\ racks[i].name = Trim(reqs[p].body.name)}
           at == IF same = {} THEN Len(racks) + 1 ELSE CHOOSE i \in same : TRUE
           newRack == NewRack(reqs[p].body, reqs[p].user.id, at)
       IN  IF RackValidates(newRack)
           THEN /\ racks' = IF same = {} THEN Append(racks, newRack)
                            ELSE [racks EXCEPT ![at] = newRack]
                /\ Answer(p, 201, newRack)
                /\ journal' = Forgotten
           ELSE /\ Answer(p, 400, [message |-> "Donnees invalides."])
                /\ UNCHANGED <<racks, journal>>
    /\ UNCHANGED <<users, tires, nextTireId, eprelDataCache>>

\* POST /racks
CreateRack(p) ==
    /\ Quiet
    /\ reqs[p].pc = "run" /\ reqs[p].op = "createRack"
    /\ LET newRack == NewRack(reqs[p].body, reqs[p].user.id, Len(racks) + 1)
       IN  IF RackValidates(newRack)
           THEN /\ racks' = Append(racks, newRack)
                /\ Answer(p, 201, newRack)
                /\ journal' = Forgotten
           ELSE /\ Answer(p, 400, [message |-> "Donnees invalides."])
                /\ UNCHANGED <<racks, journal>>
    /\ UNCHANGED <<users, tires, nextTireId, eprelDataCache>>

\* PlaceLookup with getEprelData awaited outside the try block: the
\* exception of browser.close() is caught by nothing and no answer is sent
PlaceLookupUncaught(p) ==
    /\ Quiet
    /\ reqs[p].pc = "run" /\ reqs[p].op = "placeNewTire"
    /\ LET eprelCode == reqs[p].body.eprelCode
       IN  IF ~Truthy(eprelCode)
           THEN Answer(p, 400, [message |-> "Le code EPREL est requis."])
           ELSE \E reachable \in BOOLEAN, closes \in BOOLEAN :
                   LET tireData == GetEprelData(eprelCode, reachable)
                   IN  IF ~closes
                       THEN reqs' = [reqs EXCEPT ![p].pc = "rejected"]
                       ELSE IF tireData = None
                            THEN Answer(p, 404, [message |-> "Infos non trouvees."])
                            ELSE reqs' = [reqs EXCEPT ![p].pc = "readRacks",
                                                      ![p].tireData = tireData]
    /\ UNCHANGED <<users, racks, tires, nextTireId, journal, eprelDataCache>>

\* POST /tires, up to the end of getEprelData.  closes = FALSE: browser.close()
\* in the finally block of getEprelData throws; the exception replaces the
\* function's result and lands in the handler's catch block.
PlaceLookup(p) ==
    /\ Quiet
    /\ reqs[p].pc = "run" /\ reqs[p].op = "placeNewTire"
    /\ LET eprelCode == reqs[p].body.eprelCode
       IN  IF ~Truthy(eprelCode)
           THEN Answer(p, 400, [message |-> "Le code EPREL est requis."])
           ELSE \E reachable \in BOOLEAN, closes \in BOOLEAN :
                   LET tireData == GetEprelData(eprelCode, reachable)
                   IN  IF ~closes
                       THEN Answer(p, 500, [message |-> "Erreur serveur."])
                       ELSE IF tireData = None
                            THEN Answer(p, 404, [message |-> "Infos non trouvees."])
                            ELSE reqs' = [reqs EXCEPT ![p].pc = "readRacks",
                                                      ![p].tireData = tireData]
    /\ UNCHANGED <<users, racks, tires, nextTireId, journal, eprelDataCache>>

\* NoSpaceBody without the resolved attributes
NoSpaceBodyMessageOnly(tireData) ==
    [message |-> "Aucun emplacement disponible pour ce pneu.", tireData |-> None]

\* the body of the answer when no location was found
NoSpaceBody(tireData) ==
    [message |-> "Aucun emplacement disponible pour ce pneu.", tireData |-> tireData]

\* POST /tires, Rack.find
PlaceReadRacks(p) ==
    /\ Quiet
    /\ reqs[p].pc = "readRacks"
    /\ reqs' = [reqs EXCEPT ![p].pc = "readTires",
                            ![p].userRacks = RackFind(reqs[p].user.id)]
    /\ UNCHANGED <<users, racks, tires, nextTireId, journal, eprelDataCache>>

\* POST /tires, Tire.find and the two loops that follow it
PlaceReadTires(p) ==
    /\ Quiet
    /\ reqs[p].pc = "readTires"
    /\ LET storedTires == TireFind(reqs[p].user.id)
           foundLocation == FindLocation(reqs[p].userRacks, storedTires,
                                         reqs[p].tireData, reqs[p].body.eprelCode)
       IN  IF foundLocation = None
           THEN /\ reqs' = [reqs EXCEPT
                              ![p].pc = "done",
                              ![p].storedTires = storedTires,
                              ![p].status = 400,
                              ![p].resBody = NoSpaceBody(reqs[p].tireData)]
                /\ journal' = WithRefusal(reqs[p].body.eprelCode, reqs[p].tireData)
           ELSE /\ reqs' = [reqs EXCEPT
                              ![p].pc = "save",
                              ![p].storedTires = storedTires,
                              ![p].foundLocation = foundLocation]
                /\ UNCHANGED journal
    /\ UNCHANGED <<users, racks, tires, nextTireId, eprelDataCache>>

\* PlaceSave writing with an upsert on (userId, eprelCode): a stored tire
\* of the same catalog code is moved to the location found instead of a new
\* tire being added
PlaceSaveMoving(p) ==
    /\ Quiet
    /\ reqs[p].pc = "save"
    /\ LET same == {t \in tires : /\ t.userId = reqs[p].user.id
                                  /\ t.eprelCode = reqs[p].body.eprelCode}
           old == CHOOSE t \in same : TRUE
           newTire == NewTire(reqs[p].tireData, reqs[p].body.eprelCode, reqs[p].user.id,
                              reqs[p].foundLocation,
                              IF same = {} THEN nextTireId ELSE old.id)
       IN  /\ tires' = (tires \ same) \cup {newTire}
           /\ Answer(p, 201, newTire)
    /\ nextTireId' = nextTireId + 1
    /\ journal' = Forgotten
    /\ UNCHANGED <<users, racks, eprelDataCache>>

\* POST /tires, newTire.save()
PlaceSave(p) ==
    /\ Quiet
    /\ reqs[p].pc = "save"
    /\ LET newTire == NewTire(reqs[p].tireData, reqs[p].body.eprelCode,
                              reqs[p].user.id, reqs[p].foundLocation, nextTireId)
       IN  /\ tires' = tires \cup {newTire}
           /\ Answer(p, 201, newTire)
    /\ nextTireId' = nextTireId + 1
    /\ journal' = Forgotten
    /\ UNCHANGED <<users, racks, eprelDataCache>>

\* DeleteTire answering with the tire without removing it (a findOne for
\* the findOneAndDelete)
DeleteTireFindOnly(p) ==
    /\ Quiet
    /\ reqs[p].pc = "run" /\ reqs[p].op = "deleteTire"
    /\ LET id == reqs[p].body.id
           found == {t \in tires : t.id = id /\ t.userId = reqs[p].user.id}
       IN  IF ~IsValidObjectId(id)
           THEN /\ Answer(p, 400, [message |-> "ID de pneu invalide."])
                /\ UNCHANGED journal
           ELSE IF found = {}
                THEN /\ Answer(p, 404, [message |-> "Instance de pneu non trouvee."])
                     /\ UNCHANGED journal
                ELSE /\ Answer(p, 200, [message |-> "Le pneu a ete supprime.",
                                        deletedTire |-> CHOOSE t \in found : TRUE])
                     /\ journal' = WithDeletion(CHOOSE t \in found : TRUE)
    /\ UNCHANGED <<users, racks, tires, nextTireId, eprelDataCache>>

\* DeleteTire removing every tire of the account that has the catalog code
\* of the tire asked for (a deleteMany on the code)
DeleteTireMany(p) ==
    /\ Quiet
    /\ reqs[p].pc = "run" /\ reqs[p].op = "deleteTire"
    /\ LET id == reqs[p].body.id
           found == {t \in tires : t.id = id /\ t.userId = reqs[p].user.id}
           alike == {t \in tires : /\ t.userId = reqs[p].user.id
                                   /\ \E f \in found : f.eprelCode = t.eprelCode}
       IN  IF ~IsValidObjectId(id)
           THEN /\ Answer(p, 400, [message |-> "ID de pneu invalide."])
                /\ UNCHANGED <<tires, journal>>
           ELSE IF found = {}
                THEN /\ Answer(p, 404, [message |-> "Instance de pneu non trouvee."])
                     /\ UNCHANGED <<tires, journal>>
                ELSE /\ tires' = tires \ alike
                     /\ Answer(p, 200, [message |-> "Le pneu a ete supprime.",
                                        deletedTire |-> CHOOSE t \in found : TRUE])
                     /\ journal' = WithDeletion(CHOOSE t \in found : TRUE)
    /\ UNCHANGED <<users, racks, nextTireId, eprelDataCache>>

\* DeleteTire with the _id condition left out of the filter: the first tire
\* of the account is removed, whatever id was asked for
DeleteTireByOwnerOnly(p) ==
    /\ Quiet
    /\ reqs[p].pc = "run" /\ reqs[p].op = "deleteTire"
    /\ LET id == reqs[p].body.id
           owned == {t \in tires : t.userId = reqs[p].user.id}
           first == CHOOSE t \in owned : \A u \in owned : t.id <= u.id
       IN  IF ~IsValidObjectId(id)
           THEN /\ Answer(p, 400, [message |-> "ID de pneu invalide."])
                /\ UNCHANGED <<tires, journal>>
           ELSE IF owned = {}
                THEN /\ Answer(p, 404, [message |-> "Instance de pneu non trouvee."])
                     /\ UNCHANGED <<tires, journal>>
                ELSE /\ tires' = tires \ {first}
                     /\ Answer(p, 200, [message |-> "Le pneu a ete supprime.",
                                        deletedTire |-> first])
                     /\ journal' = WithDeletion(first)
    /\ UNCHANGED <<users, racks, nextTireId, eprelDataCache>>

\* DeleteTire with the userId condition left out of the filter
DeleteTireAnyOwner(p) ==
    /\ Quiet
    /\ reqs[p].pc = "run" /\ reqs[p].op = "deleteTire"
    /\ LET id == reqs[p].body.id
           found == {t \in tires : t.id = id}
       IN  IF ~IsValidObjectId(id)
           THEN /\ Answer(p, 400, [message |-> "ID de pneu invalide."])
                /\ UNCHANGED <<tires, journal>>
           ELSE IF found = {}
                THEN /\ Answer(p, 404, [message |-> "Instance de pneu non trouvee."])
                     /\ UNCHANGED <<tires, journal>>
                ELSE /\ tires' = tires \ found
                     /\ Answer(p, 200, [message |-> "Le pneu a ete supprime.",
                                        deletedTire |-> CHOOSE t \in found : TRUE])
                     /\ journal' = WithDeletion(CHOOSE t \in found : TRUE)
    /\ UNCHANGED <<users, racks, nextTireId, eprelDataCache>>

\* DELETE /tires/:id
DeleteTire(p) ==
    /\ Quiet
    /\ reqs[p].pc = "run" /\ reqs[p].op = "deleteTire"
    /\ LET id == reqs[p].body.id
           found == {t \in tires : t.id = id /\ t.userId = reqs[p].user.id}
       IN  IF ~IsValidObjectId(id)
           THEN /\ Answer(p, 400, [message |-> "ID de pneu invalide."])
                /\ UNCHANGED <<tires, journal>>
           ELSE IF found = {}
                THEN /\ Answer(p, 404, [message |-> "Instance de pneu non trouvee."])
                     /\ UNCHANGED <<tires, journal>>
                ELSE /\ tires' = tires \ found
                     /\ Answer(p, 200, [message |-> "Le pneu a ete supprime.",
                                        deletedTire |-> CHOOSE t \in found : TRUE])
                     /\ journal' = WithDeletion(CHOOSE t \in found : TRUE)
    /\ UNCHANGED <<users, racks, nextTireId, eprelDataCache>>

\* rack.toObject() with the two lists GET /racks adds to it
PopulatedRack(rack, userTires) ==
    [id |-> rack.id,
     name |-> rack.name,
     totalWidth |-> rack.totalWidth,
     isDouble |-> rack.isDouble,
     reservedForBrand |-> rack.reservedForBrand,
     userId |-> rack.userId,
     frontRowTires |-> TiresAt(userTires, rack.id, "front"),
     backRowTires |-> TiresAt(userTires, rack.id, "back")]

\* GET /racks, Rack.find
ListReadRacks(p) ==
    /\ Quiet
    /\ reqs[p].pc = "run" /\ reqs[p].op = "listRacks"
    /\ reqs' = [reqs EXCEPT ![p].pc = "listTires",
                            ![p].userRacks = RackFind(reqs[p].user.id)]
    /\ UNCHANGED <<users, racks, tires, nextTireId, journal, eprelDataCache>>

\* ListReadTires saving the two lists on the rack documents it shows
ListReadTiresPersisting(p) ==
    /\ Quiet
    /\ reqs[p].pc = "listTires"
    /\ LET userRacks == reqs[p].userRacks
           userTires == TireFind(reqs[p].user.id)
       IN  /\ Answer(p, 200, [populatedRacks |->
                                [i \in 1..Len(userRacks) |-> PopulatedRack(userRacks[i], userTires)]])
           /\ racks' = [i \in 1..Len(racks) |->
                           IF racks[i].userId = reqs[p].user.id
                           THEN PopulatedRack(racks[i], userTires)
                           ELSE racks[i]]
    /\ UNCHANGED <<users, tires, nextTireId, journal, eprelDataCache>>

\* GET /racks, Tire.find and the map over the racks
ListReadTires(p) ==
    /\ Quiet
    /\ reqs[p].pc = "listTires"
    /\ LET userRacks == reqs[p].userRacks
           userTires == TireFind(reqs[p].user.id)
       IN  Answer(p, 200, [populatedRacks |->
                              [i \in 1..Len(userRacks) |-> PopulatedRack(userRacks[i], userTires)]])
    /\ UNCHANGED <<users, racks, tires, nextTireId, journal, eprelDataCache>>

\* GET /tires/search
SearchTires(p) ==
    /\ Quiet
    /\ reqs[p].pc = "run" /\ reqs[p].op = "searchTires"
    /\ LET query == reqs[p].body.query
       IN  IF ~Truthy(query)
           THEN Answer(p, 400, [message |-> "Critere de recherche requis."])
           ELSE IF RegExpThrows(query)
                THEN Answer(p, 500, [message |-> "Erreur serveur."])
                ELSE Answer(p, 200,
                        [results |-> {t \in tires :
                                        /\ t.userId = reqs[p].user.id
                                        /\ \/ RegExpTest(query, t.model)
                                           \/ RegExpTest(query, t.brand)
                                           \/ RegExpTest(query, t.eprelCode)}])
    /\ UNCHANGED <<users, racks, tires, nextTireId, journal, eprelDataCache>>

\* The client has the answer; the slot is free again.
Close(p) ==
    /\ reqs[p].pc = "done"
    /\ reqs' = [reqs EXCEPT ![p] = IdleReq]
    /\ UNCHANGED <<users, racks, tires, nextTireId, journal, eprelDataCache>>

\* The server as it runs: requests arrive at any time and their stretches
\* interleave.
Next ==
    \E p \in Slots :
        \/ ArriveCreateRack(p)
        \/ ArrivePlaceNewTire(p)
        \/ ArriveDeleteTire(p)
        \/ ArriveListRacks(p)
        \/ ArriveSearchTires(p)
        \/ AuthSave(p)
        \/ CreateRack(p)
        \/ PlaceLookup(p)
        \/ PlaceReadRacks(p)
        \/ PlaceReadTires(p)
        \/ PlaceSave(p)
        \/ DeleteTire(p)
        \/ ListReadRacks(p)
        \/ ListReadTires(p)
        \/ SearchTires(p)
        \/ Close(p)

Spec == Init /\ [][Next]_vars

\* a request in slot p goes on: the store or the catalog lookup it awaits
\* has returned or raised and its continuation runs, or its answer has left
HandlerStep(p) ==
    \/ AuthSave(p)
    \/ CreateRack(p)
    \/ PlaceLookup(p)
    \/ PlaceReadRacks(p)
    \/ PlaceReadTires(p)
    \/ PlaceSave(p)
    \/ DeleteTire(p)
    \/ ListReadRacks(p)
    \/ ListReadTires(p)
    \/ SearchTires(p)
    \/ Close(p)

\* The server as it runs, every awaited call of a request in flight
\* returning or raising in the end: the event loop runs each continuation
\* once its promise has settled, whatever else arrives.  Requests need not
\* keep arriving.
LiveSpec == Init /\ [][Next]_vars /\ \A p \in Slots : SF_vars(HandlerStep(p))

\* The server with its requests executed one at a time: a request arrives
\* only when no other is in flight.
SeqArriveCreateRack(p) ==
    /\ Alone
    /\ Len(racks) < SeqMaxRacks
    /\ \E in \in Inputs(RackBodies) : Authenticate(p, "createRack", in[1], in[2])

SeqArrivePlaceNewTire(p) ==
    /\ Alone
    /\ nextTireId <= SeqMaxTires
    /\ \E in \in Inputs(TireBodies) : Authenticate(p, "placeNewTire", in[1], in[2])

SeqArriveDeleteTire(p) == Alone /\ ArriveDeleteTire(p)
SeqArriveListRacks(p) == Alone /\ ArriveListRacks(p)
SeqArriveSearchTires(p) == Alone /\ ArriveSearchTires(p)

SeqNext ==
    \E p \in Slots :
        \/ SeqArriveCreateRack(p)
        \/ SeqArrivePlaceNewTire(p)
        \/ SeqArriveDeleteTire(p)
        \/ SeqArriveListRacks(p)
        \/ SeqArriveSearchTires(p)
        \/ AuthSave(p)
        \/ CreateRack(p)
        \/ PlaceLookup(p)
        \/ PlaceReadRacks(p)
        \/ PlaceReadTires(p)
        \/ PlaceSave(p)
        \/ DeleteTire(p)
        \/ ListReadRacks(p)
        \/ ListReadTires(p)
        \/ SearchTires(p)
        \/ Close(p)

SeqSpec == Init /\ [][SeqNext]_vars

\* The server with its placements kept apart, every other request
\* overlapping as it may: Tire.find of POST /tires waits while another
\* placement has read the tires and not yet saved (the critical section
\* around the read and the write that the garage's deployment would add).
SerializedPlaceReadTires(p) ==
    /\ \A q \in Slots : reqs[q].pc # "save"
    /\ PlaceReadTires(p)

SerializedArriveCreateRack(p) ==
    /\ Len(racks) + InFlight("createRack") < SerializedMaxRacks
    /\ \E in \in Inputs(RackBodies) : Authenticate(p, "createRack", in[1], in[2])

SerializedArrivePlaceNewTire(p) ==
    /\ nextTireId + InFlight("placeNewTire") <= SerializedMaxTires
    /\ \E in \in Inputs(TireBodies) : Authenticate(p, "placeNewTire", in[1], in[2])

SerializedNext ==
    \E p \in Slots :
        \/ SerializedArriveCreateRack(p)
        \/ SerializedArrivePlaceNewTire(p)
        \/ ArriveDeleteTire(p)
        \/ ArriveListRacks(p)
        \/ ArriveSearchTires(p)
        \/ AuthSave(p)
        \/ CreateRack(p)
        \/ PlaceLookup(p)
        \/ PlaceReadRacks(p)
        \/ SerializedPlaceReadTires(p)
        \/ PlaceSave(p)
        \/ DeleteTire(p)
        \/ ListReadRacks(p)
        \/ ListReadTires(p)
        \/ SearchTires(p)
        \/ Close(p)

SerializedSpec == Init /\ [][SerializedNext]_vars

\* widths (mm) the catalog page of a code may carry
PageWidths == {10, 100, 200, 250}

\* The decision of POST /tires (Rack.find, Tire.find and the two loops) taken
\* on the store as it is for a tire of a code whose catalog page carries the
\* width w: the width is the catalog's to give, the decision takes it as it
\* comes.  Nothing is saved; the decision is kept in the slot until Forget.
Decide(p) ==
    /\ Quiet
    /\ reqs[p].pc = "idle"
    /\ \A q \in Slots : q < p => reqs[q].pc # "idle"
    /\ \A q \in Slots : reqs[q].pc \in {"idle", "decided"}
    /\ \E u \in users : u.email = GarageEmail
    /\ \E eprelCode \in {CodeABC, CodeDEF, CodeGHI}, w \in PageWidths :
          LET user == CHOOSE u \in users : u.email = GarageEmail
              tireData == [GetEprelData(eprelCode, TRUE) EXCEPT !.width = w]
              userRacks == RackFind(user.id)
              storedTires == TireFind(user.id)
              foundLocation == FindLocation(userRacks, storedTires, tireData, eprelCode)
          IN  reqs' = [reqs EXCEPT ![p] =
                          [IdleReq EXCEPT !.pc = "decided",
                                          !.op = "decide",
                                          !.token = GoodToken,
                                          !.body = [eprelCode |-> eprelCode],
                                          !.user = user,
                                          !.tireData = tireData,
                                          !.userRacks = userRacks,
                                          !.storedTires = storedTires,
                                          !.foundLocation = foundLocation]]
    /\ UNCHANGED <<users, racks, tires, nextTireId, journal, eprelDataCache>>

\* the decision kept in the slot is dropped
Forget(p) ==
    /\ reqs[p].pc = "decided"
    /\ reqs' = [reqs EXCEPT ![p] = IdleReq]
    /\ UNCHANGED <<users, racks, tires, nextTireId, journal, eprelDataCache>>

\* a rack may be created while decisions are kept; tires are placed and
\* deleted only when none is
DecisionArriveCreateRack(p) ==
    /\ \A q \in Slots : reqs[q].pc \in {"idle", "decided"}
    /\ Len(racks) < DecisionMaxRacks
    /\ \E in \in Inputs(RackBodies) : Authenticate(p, "createRack", in[1], in[2])

DecisionArrivePlaceNewTire(p) ==
    /\ Alone
    /\ nextTireId <= DecisionMaxTires
    /\ \E in \in Inputs(TireBodies) : Authenticate(p, "placeNewTire", in[1], in[2])

DecisionNext ==
    \E p \in Slots :
        \/ DecisionArriveCreateRack(p)
        \/ DecisionArrivePlaceNewTire(p)
        \/ SeqArriveDeleteTire(p)
        \/ AuthSave(p)
        \/ CreateRack(p)
        \/ PlaceLookup(p)
        \/ PlaceReadRacks(p)
        \/ PlaceReadTires(p)
        \/ PlaceSave(p)
        \/ DeleteTire(p)
        \/ Decide(p)
        \/ Forget(p)
        \/ Close(p)

DecisionSpec == Init /\ [][DecisionNext]_vars

\* What the catalog may show for a code at one moment or another: the
\* product page as it is, or the page after the catalog revised the width.
PageRevisions(code) ==
    LET page == CatalogPage(code)
    IN  IF page.dimension = None THEN {page}
        ELSE {page, [page EXCEPT !.dimension.widthMm = 100]}

\* tireInfo as getEprelData builds it from a page it has scraped
ScrapedTireInfo(page) ==
    LET brand == GetText(page.marque)
        model == GetText(page.nom)
    IN  IF ~Truthy(brand) \/ page.dimension = None THEN None
        ELSE [brand |-> brand,
              model |-> IF Truthy(model) THEN model ELSE <<"N", "/", "A">>,
              width |-> page.dimension.widthMm,
              aspectRatio |-> page.dimension.aspectRatio,
              diameter |-> page.dimension.diameter]

\* POST /tires of the server that keeps the cache, up to the first await of
\* getEprelData: the code is answered from the cache, or Chrome is not
\* installed (chrome = FALSE), or the browser is launched
CachedLookupStart(p) ==
    /\ Quiet
    /\ reqs[p].pc = "run" /\ reqs[p].op = "placeNewTire"
    /\ LET eprelCode == reqs[p].body.eprelCode
       IN  IF ~Truthy(eprelCode)
           THEN Answer(p, 400, [message |-> "Le code EPREL est requis."])
           ELSE IF eprelCode \in DOMAIN eprelDataCache
                THEN reqs' = [reqs EXCEPT ![p].pc = "readRacks",
                                          ![p].tireData = eprelDataCache[eprelCode]]
                ELSE \E chrome \in BOOLEAN :
                        IF ~chrome
                        THEN Answer(p, 404, [message |-> "Infos non trouvees."])
                        ELSE reqs' = [reqs EXCEPT ![p].pc = "scraping"]
    /\ UNCHANGED <<users, racks, tires, nextTireId, journal, eprelDataCache>>

\* getEprelData from the launch of the browser to its end: the page is
\* scraped (reachable = FALSE: the launch or the navigation throws), a
\* complete record is stored in the cache, and the browser is closed in the
\* finally block (closes = FALSE: browser.close() throws)
CachedLookupEnd(p) ==
    /\ Quiet
    /\ reqs[p].pc = "scraping"
    /\ \E reachable \in BOOLEAN, closes \in BOOLEAN,
          page \in PageRevisions(reqs[p].body.eprelCode) :
          LET tireInfo == IF reachable THEN ScrapedTireInfo(page) ELSE None
          IN  /\ eprelDataCache' =
                    IF tireInfo = None THEN eprelDataCache
                    ELSE CachePut(eprelDataCache, reqs[p].body.eprelCode, tireInfo)
              /\ IF ~closes
                 THEN Answer(p, 500, [message |-> "Erreur serveur."])
                 ELSE IF tireInfo = None
                      THEN Answer(p, 404, [message |-> "Infos non trouvees."])
                      ELSE reqs' = [reqs EXCEPT ![p].pc = "readRacks",
                                                ![p].tireData = tireInfo]
    /\ UNCHANGED <<users, racks, tires, nextTireId, journal>>

CacheArriveCreateRack(p) ==
    /\ Len(racks) + InFlight("createRack") < CacheMaxRacks
    /\ \E in \in Inputs(RackBodies) : Authenticate(p, "createRack", in[1], in[2])

CacheArrivePlaceNewTire(p) ==
    /\ nextTireId + InFlight("placeNewTire") <= CacheMaxTires
    /\ \E in \in Inputs(TireBodies) : Authenticate(p, "placeNewTire", in[1], in[2])

\* The server that keeps the catalog cache, as it runs: requests arrive at
\* any time and their stretches interleave.
CacheNext ==
    \E p \in Slots :
        \/ CacheArriveCreateRack(p)
        \/ CacheArrivePlaceNewTire(p)
        \/ AuthSave(p)
        \/ CreateRack(p)
        \/ CachedLookupStart(p)
        \/ CachedLookupEnd(p)
        \/ PlaceReadRacks(p)
        \/ PlaceReadTires(p)
        \/ PlaceSave(p)
        \/ Close(p)

CacheSpec == Init /\ [][CacheNext]_vars

\* The same server started on a database that already holds the documents of
\* a second account: the collections are shared by all accounts (every rack
\* and tire document carries a userId), whereas this server only ever signs
\* in the garage account.
OtherUser == [id |-> 1, email |-> <<"other@test.com">>]

OtherRack ==
    [id |-> 1, name |-> <<"B">>, totalWidth |-> 250, isDouble |-> TRUE,
     reservedForBrand |-> Null, userId |-> OtherUser.id]

OtherTire ==
    NewTire(GetEprelData(CodeABC, TRUE), CodeABC, OtherUser.id,
            [rackId |-> OtherRack.id, row |-> "front"], 1)

InitShared ==
    /\ users = {OtherUser}
    /\ racks = <<OtherRack>>
    /\ tires = {OtherTire}
    /\ nextTireId = 2
    /\ reqs = [p \in Slots |-> IdleReq]
    /\ journal = JournalOff
    /\ eprelDataCache = EmptyCache

SharedSpec == InitShared /\ [][SeqNext]_vars

\* The server with its requests one at a time and the client keeping its
\* journal.
InitJournal ==
    /\ users = {}
    /\ racks = <<>>
    /\ tires = {}
    /\ nextTireId = 1
    /\ reqs = [p \in Slots |-> IdleReq]
    /\ journal = JournalEmpty
    /\ eprelDataCache = EmptyCache

JournalArriveCreateRack(p) ==
    /\ Alone
    /\ Len(racks) < JournalMaxRacks
    /\ \E in \in Inputs(RackBodies) : Authenticate(p, "createRack", in[1], in[2])

JournalArrivePlaceNewTire(p) ==
    /\ Alone
    /\ nextTireId <= JournalMaxTires
    /\ \E in \in Inputs(TireBodies) : Authenticate(p, "placeNewTire", in[1], in[2])

JournalNext ==
    \E p \in Slots :
        \/ JournalArriveCreateRack(p)
        \/ JournalArrivePlaceNewTire(p)
        \/ SeqArriveDeleteTire(p)
        \/ SeqArriveListRacks(p)
        \/ SeqArriveSearchTires(p)
        \/ AuthSave(p)
        \/ CreateRack(p)
        \/ PlaceLookup(p)
        \/ PlaceReadRacks(p)
        \/ PlaceReadTires(p)
        \/ PlaceSave(p)
        \/ DeleteTire(p)
        \/ ListReadRacks(p)
        \/ ListReadTires(p)
        \/ SearchTires(p)
        \/ Close(p)

JournalSpec == InitJournal /\ [][JournalNext]_vars

\* The same, started on the database that two overlapping placements have
\* left with two tires 20 wide in the front row of a rack 20 wide (the run
\* of POST /tires in which both requests read before either saves).
GarageUser == [id |-> 1, email |-> GarageEmail]

OverbookedRack ==
    [id |-> 1, name |-> <<"A">>, totalWidth |-> 200, isDouble |-> FALSE,
     reservedForBrand |-> Null, userId |-> GarageUser.id]

OverbookedTires ==
    {NewTire(GetEprelData(CodeDEF, TRUE), CodeDEF, GarageUser.id,
             [rackId |-> OverbookedRack.id, row |-> "front"], id) : id \in {1, 2}}

InitOverbooked ==
    /\ users = {GarageUser}
    /\ racks = <<OverbookedRack>>
    /\ tires = OverbookedTires
    /\ nextTireId = 3
    /\ reqs = [p \in Slots |-> IdleReq]
    /\ journal = JournalEmpty
    /\ eprelDataCache = EmptyCache

OverbookedSpec == InitOverbooked /\ [][SeqNext]_vars

-----------------------------------------------------------------------------
(* Vocabulary of the properties.  These definitions restate what the       *)
(* specification says in its own terms; they use none of the operators     *)
(* that model the handlers' decisions.                                      *)

Rows == {"front", "back"}

RackIndexes == 1..Len(racks)

RECURSIVE TotalWidthOf(_)
TotalWidthOf(S) ==
    IF S = {} THEN 0
    ELSE LET t == CHOOSE x \in S : TRUE IN t.width + TotalWidthOf(S \ {t})

\* the tires of a set placed at (rack, row)
PlacedAt(S, rackId, row) ==
    {t \in S : t.location # None /\ t.location.rackId = rackId /\ t.location.row = row}

\* summed width of the tires of a set placed at (rack, row)
Occupied(S, rackId, row) == TotalWidthOf(PlacedAt(S, rackId, row))

\* the rack carries a brand reservation (spec: the empty string is absent)
Reserved(rack) == rack.reservedForBrand # Null /\ rack.reservedForBrand # <<>>

\* equal, compared case-insensitively
SameIgnoringCase(a, b) ==
    /\ Len(a) = Len(b)
    /\ \A i \in 1..Len(a) : UpperChar(a[i]) = UpperChar(b[i])

\* the rack may take a tire of this brand
Admits(rack, brand) == ~Reserved(rack) \/ SameIgnoringCase(rack.reservedForBrand, brand)

\* a POST /tires request whose catalog lookup succeeded and whose placement
\* decision is made: the tire is about to be saved, is saved, or was refused
\* for lack of space
Refused(p) ==
    /\ reqs[p].op = "placeNewTire" /\ reqs[p].pc = "done"
    /\ reqs[p].status = 400 /\ reqs[p].tireData # None

Decided(p) ==
    /\ reqs[p].op = "placeNewTire"
    /\ \/ reqs[p].pc = "save"
       \/ reqs[p].pc = "done" /\ reqs[p].status = 201
       \/ Refused(p)

\* positions, in the rack list the request read, of the racks that qualify in
\* the pairing pass, and of those that qualify in the fallback pass
PairingCandidates(p) ==
    LET q == reqs[p]
        code == q.body.eprelCode
    IN  {i \in 1..Len(q.userRacks) :
            LET rack == q.userRacks[i]
            IN  /\ Admits(rack, q.tireData.brand)
                /\ rack.isDouble
                /\ Cardinality({t \in PlacedAt(q.storedTires, rack.id, "front") : t.eprelCode = code})
                     > Cardinality({t \in PlacedAt(q.storedTires, rack.id, "back") : t.eprelCode = code})
                /\ rack.totalWidth - Occupied(q.storedTires, rack.id, "back") >= q.tireData.width}

FallbackCandidates(p) ==
    LET q == reqs[p]
    IN  {i \in 1..Len(q.userRacks) :
            LET rack == q.userRacks[i]
            IN  /\ Admits(rack, q.tireData.brand)
                /\ rack.totalWidth - Occupied(q.storedTires, rack.id, "front") >= q.tireData.width}

Lowest(S) == CHOOSE i \in S : \A j \in S : i <= j

-----------------------------------------------------------------------------
(* C1 *)

\* C1: with the requests executed one at a time, in every reachable state
\* the summed width of the tires at (rack, row) is at most the rack's
\* totalWidth, for every rack and both rows.
CapacityInvariant ==
    \A i \in RackIndexes : \A row \in Rows :
        Occupied(tires, racks[i].id, row) <= racks[i].totalWidth

-----------------------------------------------------------------------------
(* C2 *)

\* C2: overlapping placements are serialized, so two of them never both
\* commit on the same spare capacity: no row of a rack (of non-negative
\* totalWidth, which is within capacity when empty) ends above totalWidth.
PlacementsSerialized ==
    \A i \in RackIndexes : \A row \in Rows :
        racks[i].totalWidth >= 0 =>
            Occupied(tires, racks[i].id, row) <= racks[i].totalWidth

-----------------------------------------------------------------------------
(* C3 *)

\* C3: in every reachable state no tire is in the back row of a rack whose
\* isDouble is false.
NoBackRowOnSingleRack ==
    \A t \in tires : \A i \in RackIndexes :
        (t.location.rackId = racks[i].id /\ t.location.row = "back") => racks[i].isDouble

\* a rack that is not double holds two tires of one catalog code, side by
\* side in front: the second one had an identical tire to go behind
C3Witness ==
    \E i \in RackIndexes : \E t1, t2 \in PlacedAt(tires, racks[i].id, "front") :
        /\ ~racks[i].isDouble
        /\ t1 # t2
        /\ t1.eprelCode = t2.eprelCode

-----------------------------------------------------------------------------
(* C4 *)

\* C4: in every reachable state, every tire placed on a rack that carries a
\* brand reservation has a brand equal to the reservation, compared
\* case-insensitively.
ReservedRackHoldsItsBrand ==
    \A t \in tires : \A i \in RackIndexes :
        (t.location.rackId = racks[i].id /\ Reserved(racks[i]))
            => SameIgnoringCase(t.brand, racks[i].reservedForBrand)

\* a reserved rack holds a tire whose brand is written in another case
C4Witness ==
    \E t \in tires : \E i \in RackIndexes :
        /\ t.location.rackId = racks[i].id
        /\ Reserved(racks[i])
        /\ t.brand # racks[i].reservedForBrand

-----------------------------------------------------------------------------
(* C5 *)

\* the documents of one account
RacksOf(userId) ==
    LET Mine(r) == r.userId = userId
    IN  SelectSeq(racks, Mine)

TiresOf(userId) == {t \in tires : t.userId = userId}

\* what GET /racks shows of a rack when only the tires of S are looked at
ViewOf(rack, S) ==
    [id |-> rack.id, name |-> rack.name, totalWidth |-> rack.totalWidth,
     isDouble |-> rack.isDouble, reservedForBrand |-> rack.reservedForBrand,
     userId |-> rack.userId,
     frontRowTires |-> PlacedAt(S, rack.id, "front"),
     backRowTires |-> PlacedAt(S, rack.id, "back")]

Answered(p, op, status) ==
    reqs[p].op = op /\ reqs[p].pc = "done" /\ reqs[p].status = status

\* C5: owner isolation.  The documents of the other account are never
\* changed; a tire's rack is a rack of the tire's own owner; a request reads
\* only documents of its own account; and what it answers is what it would
\* answer were the other account's documents not in the database at all.
OwnerIsolation ==
    /\ OtherUser \in users /\ racks[1] = OtherRack /\ OtherTire \in tires
    /\ \A t \in tires : \E i \in RackIndexes :
          racks[i].id = t.location.rackId /\ racks[i].userId = t.userId
    /\ \A p \in Slots :
          reqs[p].user # None =>
            LET q == reqs[p]
                me == q.user.id
            IN  /\ \A i \in 1..Len(q.userRacks) : q.userRacks[i].userId = me
                /\ \A t \in q.storedTires : t.userId = me
                /\ Answered(p, "listRacks", 200) =>
                      q.resBody.populatedRacks =
                          [i \in 1..Len(RacksOf(me)) |-> ViewOf(RacksOf(me)[i], TiresOf(me))]
                /\ Answered(p, "searchTires", 200) =>
                      q.resBody.results =
                          {t \in TiresOf(me) :
                              \/ RegExpTest(q.body.query, t.model)
                              \/ RegExpTest(q.body.query, t.brand)
                              \/ RegExpTest(q.body.query, t.eprelCode)}
                /\ (q.pc = "save" \/ Refused(p)) =>
                      q.foundLocation =
                          FindLocation(RacksOf(me), TiresOf(me), q.tireData, q.body.eprelCode)
                /\ Answered(p, "placeNewTire", 201) =>
                      q.resBody.userId = me /\ q.resBody \in tires
                /\ Answered(p, "deleteTire", 200) =>
                      q.resBody.deletedTire.userId = me /\ q.resBody.deletedTire \notin tires
                /\ Answered(p, "deleteTire", 404) =>
                      ~\E t \in TiresOf(me) : t.id = q.body.id

\* a search for "abc" answers with a tire of the garage account and without
\* the other account's tire, whose catalog code holds ABC
C5Witness ==
    \E p \in Slots :
        /\ Answered(p, "searchTires", 200)
        /\ reqs[p].body.query = <<"a", "b", "c">>
        /\ reqs[p].resBody.results # {}
        /\ OtherTire \notin reqs[p].resBody.results
        /\ RegExpTest(reqs[p].body.query, OtherTire.eprelCode)

-----------------------------------------------------------------------------
(* C6 *)

\* C6: createRack stores no rack whose totalWidth is <= 0 (nor one whose name
\* is empty), so every rack of every reachable state has totalWidth > 0.
EveryRackHasPositiveWidth ==
    \A i \in RackIndexes : racks[i].totalWidth > 0 /\ racks[i].name # <<>>

-----------------------------------------------------------------------------
(* C7 *)

\* the brands a tire can have, upper-cased
UpperBrands == {<<"X">>, <<"Y">>}

\* neither padded with spaces nor holding a lower-case letter
IsNormalized(v) ==
    /\ v = <<>> \/ (v[1] # Space /\ v[Len(v)] # Space)
    /\ \A i \in 1..Len(v) : v[i] \notin LowerChars

CreatedRack(p) ==
    reqs[p].op = "createRack" /\ reqs[p].pc = "done" /\ reqs[p].status = 201

\* C7: the rack createRack stores carries the reserved brand it was given
\* trimmed and upper-cased; given no reserved brand, or the empty string, it
\* carries no reservation and admits tires of every brand.
ReservedBrandIsNormalized ==
    \A p \in Slots :
        CreatedRack(p) =>
            LET given == reqs[p].body.reservedForBrand
                rack == racks[Len(racks)]
            IN  /\ reqs[p].resBody = rack
                /\ IF given = Null \/ given = <<>>
                   THEN /\ rack.reservedForBrand = Null
                        /\ \A brand \in UpperBrands : IsEligible(rack, brand)
                   ELSE /\ rack.reservedForBrand = ToUpperCase(Trim(given))
                        /\ IsNormalized(rack.reservedForBrand)

\* a rack was created from a reserved brand written with a leading space
\* and in lower case
C7Witness ==
    \E p \in Slots :
        /\ CreatedRack(p)
        /\ reqs[p].body.reservedForBrand = <<" ", "x">>
        /\ racks[Len(racks)].reservedForBrand = <<"X">>

-----------------------------------------------------------------------------
(* C8 *)

\* the rack, in the list the request read, that its location names
LocatedRack(p) ==
    LET q == reqs[p]
    IN  q.userRacks[CHOOSE i \in 1..Len(q.userRacks) :
                        q.userRacks[i].id = q.foundLocation.rackId]

\* C8: the placement decision considers a rack if and only if the rack has
\* no reserved brand or its reserved brand is the tire's brand upper-cased:
\* the location is never on another rack, and the tire is refused only if no
\* such rack has room in front.
OnlyEligibleRacksAreConsidered ==
    \A p \in Slots :
        Decided(p) =>
            LET q == reqs[p]
            IN  /\ q.foundLocation # None =>
                      /\ \E i \in 1..Len(q.userRacks) : q.userRacks[i].id = q.foundLocation.rackId
                      /\ \/ ~Reserved(LocatedRack(p))
                         \/ LocatedRack(p).reservedForBrand = ToUpperCase(q.tireData.brand)
                /\ Refused(p) =>
                      \A i \in 1..Len(q.userRacks) :
                          LET rack == q.userRacks[i]
                          IN  (\/ ~Reserved(rack)
                               \/ rack.reservedForBrand = ToUpperCase(q.tireData.brand))
                              => rack.totalWidth - Occupied(q.storedTires, rack.id, "front")
                                    < q.tireData.width

\* a tire is refused although a rack reserved for another brand has room for
\* it in front
C8Witness ==
    \E p \in Slots :
        /\ Refused(p)
        /\ \E i \in 1..Len(reqs[p].userRacks) :
              LET rack == reqs[p].userRacks[i]
              IN  /\ Reserved(rack)
                  /\ ~SameIgnoringCase(rack.reservedForBrand, reqs[p].tireData.brand)
                  /\ rack.totalWidth - Occupied(reqs[p].storedTires, rack.id, "front")
                        >= reqs[p].tireData.width

-----------------------------------------------------------------------------
(* C9 *)

-----------------------------------------------------------------------------
(* C10 *)

\* C10: when no rack qualifies in the pairing pass, the tire goes to the
\* front row of the first eligible rack in creation order with room for it
\* in front; a front-row location is given only in that case.
FallbackPassFillsFirstFront ==
    \A p \in Slots :
        Decided(p) =>
            /\ (PairingCandidates(p) = {} /\ FallbackCandidates(p) # {}) =>
                  reqs[p].foundLocation =
                      [rackId |-> reqs[p].userRacks[Lowest(FallbackCandidates(p))].id,
                       row |-> "front"]
            /\ (reqs[p].foundLocation # None /\ reqs[p].foundLocation.row = "front") =>
                  PairingCandidates(p) = {}

\* two racks have room in front and no rack qualifies for pairing
C10Witness ==
    \E p \in Slots :
        /\ Decided(p)
        /\ PairingCandidates(p) = {}
        /\ Cardinality(FallbackCandidates(p)) >= 2
        /\ reqs[p].pc = "done" /\ reqs[p].status = 201

-----------------------------------------------------------------------------
(* C11 *)

\* the racks of the store that belong to the request's account
OwnRackIndexes(p) == {i \in RackIndexes : racks[i].userId = reqs[p].user.id}

\* room left in a row of a rack, counted on the tires of the store
Residual(rack, row) == rack.totalWidth - Occupied(tires, rack.id, row)

\* the rack holds more tires of this catalog code in front than in back
HasUnmatchedFront(rack, code) ==
    Cardinality({t \in PlacedAt(tires, rack.id, "front") : t.eprelCode = code})
        > Cardinality({t \in PlacedAt(tires, rack.id, "back") : t.eprelCode = code})

\* C11 as stated: a tire is refused for lack of space only when no eligible
\* rack has room for it in any row the rack possesses: the front row, and the
\* back row when the rack is double.
RefusedOnlyWhenNoRowHasRoom ==
    \A p \in Slots :
        Refused(p) =>
            \A i \in OwnRackIndexes(p) :
                Admits(racks[i], reqs[p].tireData.brand) =>
                    /\ Residual(racks[i], "front") < reqs[p].tireData.width
                    /\ racks[i].isDouble =>
                          Residual(racks[i], "back") < reqs[p].tireData.width

\* C11 amended: a tire is refused for lack of space only when no eligible
\* rack has room for it in front, and no eligible double rack that holds an
\* unmatched front tire of the same catalog code has room for it in back.
RefusedOnlyWhenNoPassHasRoom ==
    \A p \in Slots :
        Refused(p) =>
            \A i \in OwnRackIndexes(p) :
                Admits(racks[i], reqs[p].tireData.brand) =>
                    /\ Residual(racks[i], "front") < reqs[p].tireData.width
                    /\ (racks[i].isDouble /\ HasUnmatchedFront(racks[i], reqs[p].body.eprelCode)) =>
                          Residual(racks[i], "back") < reqs[p].tireData.width

\* a tire is refused while an eligible rack has some room left in front,
\* less than the tire's width
C11Witness ==
    \E p \in Slots :
        /\ Refused(p)
        /\ \E i \in OwnRackIndexes(p) :
              /\ Admits(racks[i], reqs[p].tireData.brand)
              /\ Residual(racks[i], "front") > 0
              /\ Residual(racks[i], "front") < reqs[p].tireData.width

-----------------------------------------------------------------------------
(* C12 *)

\* the attributes the catalog page of a code resolves to
ResolvedAttributes(code) ==
    LET page == CatalogPage(code)
    IN  [brand |-> page.marque,
         model |-> IF page.nom = Null THEN <<"N", "/", "A">> ELSE page.nom,
         width |-> page.dimension.widthMm,
         aspectRatio |-> page.dimension.aspectRatio,
         diameter |-> page.dimension.diameter]

\* C12: with the requests executed one at a time, the answer of a placement
\* refused for lack of space carries exactly the resolved attributes (brand,
\* model, width, aspectRatio, diameter), and no step of a placement request
\* that does not end in a stored tire changes the racks or the tires.
NoSpaceChangesNothing ==
    [][\A p \in Slots :
          /\ Refused(p)' =>
                /\ reqs'[p].resBody.tireData = ResolvedAttributes(reqs'[p].body.eprelCode)
                /\ DOMAIN reqs'[p].resBody.tireData
                      = {"brand", "model", "width", "aspectRatio", "diameter"}
          /\ (/\ reqs[p].op = "placeNewTire"
              /\ reqs'[p].op = "placeNewTire"
              /\ ~(reqs'[p].pc = "done" /\ reqs'[p].status = 201)) =>
                (racks' = racks /\ tires' = tires)]_vars

\* a tire whose model the catalog does not give is refused while the store
\* holds a rack and a tire
C12Witness ==
    \E p \in Slots :
        /\ Refused(p)
        /\ reqs[p].resBody.tireData.model = <<"N", "/", "A">>
        /\ racks # <<>> /\ tires # {}

-----------------------------------------------------------------------------
(* C13 *)

\* room left in a row of a rack, counted on the tires the request read
ResidualRead(p, rack, row) == rack.totalWidth - Occupied(reqs[p].storedTires, rack.id, row)

\* C13: a tire as wide as the room left in the front row of an eligible rack
\* is not refused; a tire is never given a row with less room than its width
\* (so a row without room takes no tire of positive width); and a tire stored
\* in a row that had exactly its width left leaves the row full.
ExactFitIsAccepted ==
    \A p \in Slots :
        Decided(p) =>
            LET q == reqs[p]
                w == q.tireData.width
            IN  /\ (\E i \in 1..Len(q.userRacks) :
                        /\ Admits(q.userRacks[i], q.tireData.brand)
                        /\ ResidualRead(p, q.userRacks[i], "front") = w)
                      => q.foundLocation # None
                /\ q.foundLocation # None =>
                      ResidualRead(p, LocatedRack(p), q.foundLocation.row) >= w
                /\ (/\ q.pc = "done" /\ q.status = 201
                    /\ ResidualRead(p, LocatedRack(p), q.foundLocation.row) = w) =>
                      Occupied(tires, q.foundLocation.rackId, q.foundLocation.row)
                          = LocatedRack(p).totalWidth

\* Scenario A: the only rack is not double, 20 wide and holds one tire 20
\* wide in front; a tire 1 wide is refused
C13Witness ==
    \E p \in Slots :
        /\ Refused(p)
        /\ reqs[p].tireData.width = 10
        /\ Len(reqs[p].userRacks) = 1
        /\ ~reqs[p].userRacks[1].isDouble
        /\ ~Reserved(reqs[p].userRacks[1])
        /\ reqs[p].userRacks[1].totalWidth = 200
        /\ \E t \in reqs[p].storedTires :
              /\ reqs[p].storedTires = {t}
              /\ t.width = 200
              /\ t.location = [rackId |-> reqs[p].userRacks[1].id, row |-> "front"]

-----------------------------------------------------------------------------
(* C14 *)

\* the request repeats a placement the journal holds as refused, after the
\* deletion of a tire of the same width and no other change of the store
RepeatsRefusedPlacement(p) ==
    /\ Decided(p)
    /\ journal # JournalOff
    /\ journal.freed # None
    /\ [code |-> reqs[p].body.eprelCode, width |-> reqs[p].tireData.width] \in journal.refused

\* the rack of the deleted tire, in the list the request read
FreedRack(p) ==
    reqs[p].userRacks[CHOOSE i \in 1..Len(reqs[p].userRacks) :
                          reqs[p].userRacks[i].id = journal.freed.location.rackId]

\* the passes offer the freed place to the new tire: its rack is eligible,
\* its row, the deleted tire out of it, has room for the tire, and it is a
\* front row, or the back row of a rack that now holds more tires of the new
\* tire's code in front than in back
FreedPlaceIsOffered(p) ==
    LET q == reqs[p]
        t == journal.freed
        rack == FreedRack(p)
    IN  /\ Admits(rack, q.tireData.brand)
        /\ rack.totalWidth - Occupied(q.storedTires \ {t}, rack.id, t.location.row)
              >= q.tireData.width
        /\ \/ t.location.row = "front"
           \/ Cardinality({x \in PlacedAt(q.storedTires, rack.id, "front") :
                              x.eprelCode = q.body.eprelCode})
                > Cardinality({x \in PlacedAt(q.storedTires, rack.id, "back") :
                                  x.eprelCode = q.body.eprelCode})

\* C14 as stated: Scenario D.  A placement refused for lack of space and
\* repeated after the deletion of a tire of exactly its width, nothing else
\* having changed, gets the rack and row of the deleted tire.
FreedSlotIsReused ==
    \A p \in Slots :
        RepeatsRefusedPlacement(p) => reqs[p].foundLocation = journal.freed.location

\* C14 amended: the repeated placement gets the rack and row of the deleted
\* tire provided the passes offer that place to the new tire.
FreedSlotIsReusedWhenOffered ==
    \A p \in Slots :
        (RepeatsRefusedPlacement(p) /\ FreedPlaceIsOffered(p)) =>
            reqs[p].foundLocation = journal.freed.location

\* a refused placement, repeated after the deletion, is about to store its
\* tire in the back row the deleted tire left
C14Witness ==
    \E p \in Slots :
        /\ RepeatsRefusedPlacement(p)
        /\ FreedPlaceIsOffered(p)
        /\ journal.freed.location.row = "back"
        /\ journal.freed \notin tires
        /\ reqs[p].pc = "save"

-----------------------------------------------------------------------------
(* C15 *)

\* the request read a single rack: double, 25 wide, without reservation
ReadScenarioBRack(p) ==
    /\ Len(reqs[p].userRacks) = 1
    /\ reqs[p].userRacks[1].isDouble
    /\ reqs[p].userRacks[1].totalWidth = 250
    /\ ~Reserved(reqs[p].userRacks[1])

\* the tires the request read are one tire of code ABC123, 20 wide, in each
\* of these rows of the rack, and nothing else
ReadScenarioBTires(p, rows) ==
    /\ Cardinality(reqs[p].storedTires) = Cardinality(rows)
    /\ \A row \in rows : \E t \in reqs[p].storedTires :
          /\ t.eprelCode = CodeABC
          /\ t.width = 200
          /\ t.location = [rackId |-> reqs[p].userRacks[1].id, row |-> row]

\* C15: Scenario B.  On a single unreserved double rack 25 wide, a tire of
\* code ABC123 and width 20 goes in front; a second one goes behind it; a
\* tire of another code and width 20 is then refused.
ScenarioB ==
    \A p \in Slots :
        (Decided(p) /\ ReadScenarioBRack(p)) =>
            LET q == reqs[p]
                rackId == q.userRacks[1].id
            IN  /\ (ReadScenarioBTires(p, {}) /\ q.body.eprelCode = CodeABC) =>
                      q.foundLocation = [rackId |-> rackId, row |-> "front"]
                /\ (ReadScenarioBTires(p, {"front"}) /\ q.body.eprelCode = CodeABC) =>
                      q.foundLocation = [rackId |-> rackId, row |-> "back"]
                /\ (/\ ReadScenarioBTires(p, {"front", "back"})
                    /\ q.body.eprelCode # CodeABC
                    /\ q.tireData.width = 200) =>
                      Refused(p)

\* the third request of Scenario B is refused
C15Witness ==
    \E p \in Slots :
        /\ Refused(p)
        /\ ReadScenarioBRack(p)
        /\ ReadScenarioBTires(p, {"front", "back"})
        /\ reqs[p].body.eprelCode = CodeDEF

-----------------------------------------------------------------------------
(* C17 *)

\* C17: in every reachable state, overlapping requests included, every stored
\* tire has a location, whose row is front or back and whose rackId is the id
\* of a stored rack.
EveryTireIsPlaced ==
    \A t \in tires :
        /\ t.location # None
        /\ t.location.row \in Rows
        /\ \E i \in RackIndexes : racks[i].id = t.location.rackId

\* the store holds a tire in a front row and a tire in a back row
C17Witness ==
    \E t1, t2 \in tires :
        /\ t1.location # None /\ t1.location.row = "front"
        /\ t2.location # None /\ t2.location.row = "back"

-----------------------------------------------------------------------------
(* C18 *)

\* a placement request ended because its catalog lookup failed: nothing was
\* found for the code, or the lookup threw
LookupFailed(p) ==
    /\ reqs[p].op = "placeNewTire" /\ reqs[p].pc = "done"
    /\ \/ reqs[p].status = 404
       \/ reqs[p].status = 500 /\ reqs[p].resBody = [message |-> "Erreur serveur."]

\* C18: a placement request whose catalog lookup fails ends at once with a
\* failure answer; it has read neither racks nor tires, and the step that
\* ends it changes no rack and no tire.  A request for a code the catalog
\* does not know never gets to read racks or tires.
LookupFailureTouchesNothing ==
    [][\A p \in Slots :
          /\ LookupFailed(p)' =>
                /\ reqs[p].pc = "run"
                /\ racks' = racks /\ tires' = tires /\ nextTireId' = nextTireId
                /\ reqs'[p].tireData = None
                /\ reqs'[p].userRacks = <<>>
                /\ reqs'[p].storedTires = {}
                /\ reqs'[p].foundLocation = None
          /\ (reqs'[p].op = "placeNewTire" /\ reqs'[p].body.eprelCode = CodeUnknown) =>
                /\ reqs'[p].pc \in {"authSave", "run", "done"}
                /\ reqs'[p].pc = "done" => reqs'[p].status \in {401, 404, 500}]_vars

\* a request for an unknown code is answered 404 while the store holds a
\* rack and a tire
C18Witness ==
    \E p \in Slots :
        /\ LookupFailed(p)
        /\ reqs[p].status = 404
        /\ reqs[p].body.eprelCode = CodeUnknown
        /\ racks # <<>> /\ tires # {}

-----------------------------------------------------------------------------
(* C19 *)

\* the tires an answer of GET /racks shows
ShownTires(body) ==
    UNION {body.populatedRacks[i].frontRowTires \cup body.populatedRacks[i].backRowTires :
              i \in 1..Len(body.populatedRacks)}

\* C19: with overlapping requests, every step changes the store by nothing
\* or by one whole document: one rack appended, or one tire added that
\* carries its location, or one tire removed; a stored tire is never altered;
\* a request that stores or removes a document answers with that document and
\* a request that fails changes nothing; and every tire an answer of
\* listRacks or searchTires shows is a stored tire with its location.
MutationsAreAtomic ==
    [][/\ \/ racks' = racks /\ tires' = tires
          \/ /\ tires' = tires
             /\ Len(racks') = Len(racks) + 1
             /\ SubSeq(racks', 1, Len(racks)) = racks
          \/ /\ racks' = racks
             /\ \E t \in tires' : /\ t \notin tires
                                  /\ tires' = tires \cup {t}
                                  /\ t.location # None
                                  /\ t.location.row \in Rows
          \/ /\ racks' = racks
             /\ \E t \in tires : tires' = tires \ {t}
       /\ \A p \in Slots :
             (reqs[p].pc # "done" /\ reqs'[p].pc = "done") =>
                LET q == reqs'[p]
                IN  /\ (q.op = "createRack" /\ q.status = 201) =>
                          racks' = Append(racks, q.resBody)
                    /\ (q.op = "placeNewTire" /\ q.status = 201) =>
                          (q.resBody \notin tires /\ tires' = tires \cup {q.resBody})
                    /\ (q.op = "deleteTire" /\ q.status = 200) =>
                          (q.resBody.deletedTire \in tires
                             /\ tires' = tires \ {q.resBody.deletedTire})
                    /\ (\/ q.status \notin {200, 201}
                        \/ q.op \in {"listRacks", "searchTires"}) =>
                          (racks' = racks /\ tires' = tires)
                    /\ (q.op = "listRacks" /\ q.status = 200) =>
                          \A t \in ShownTires(q.resBody) : t \in tires /\ t.location # None
                    /\ (q.op = "searchTires" /\ q.status = 200) =>
                          \A t \in q.resBody.results : t \in tires /\ t.location # None]_vars

\* listRacks answers, showing a stored tire, while a placement that has
\* decided on a location has not stored its tire yet
C19Witness ==
    \E p, q \in Slots :
        /\ Answered(p, "listRacks", 200)
        /\ ShownTires(reqs[p].resBody) # {}
        /\ reqs[q].op = "placeNewTire" /\ reqs[q].pc = "save"

-----------------------------------------------------------------------------
(* C20 *)

\* q, taken as a literal string, occurs in text, compared case-insensitively
ContainsIgnoringCase(text, q) ==
    \E start \in 1..(Len(text) - Len(q) + 1) :
        \A j \in 1..Len(q) : UpperChar(q[j]) = UpperChar(text[start + j - 1])

\* C20: for every non-empty query string, punctuation included, searchTires
\* answers with exactly the tires of the account whose brand, model or
\* catalog code contains the query as a literal string, compared
\* case-insensitively.
SearchIsLiteralSubstring ==
    \A p \in Slots :
        (/\ reqs[p].op = "searchTires" /\ reqs[p].pc = "done"
         /\ reqs[p].user # None
         /\ reqs[p].body.query # <<>>) =>
            /\ reqs[p].status = 200
            /\ reqs[p].resBody.results =
                  {t \in TiresOf(reqs[p].user.id) :
                      \/ ContainsIgnoringCase(t.brand, reqs[p].body.query)
                      \/ ContainsIgnoringCase(t.model, reqs[p].body.query)
                      \/ ContainsIgnoringCase(t.eprelCode, reqs[p].body.query)}

-----------------------------------------------------------------------------
(* C21 *)

\* the tire the request asks to delete, when it is a tire of the caller
OwnTireAsked(p) ==
    {t \in tires : t.id = reqs[p].body.id /\ t.userId = reqs[p].user.id}

\* C21: deleteTire on a tire of the caller answers 200 with that tire and
\* removes exactly it: every other tire, of any account, stays as it was,
\* the racks are unchanged, and the occupied width of the deleted tire's
\* (rack, row) drops by exactly its width while every other row keeps its
\* occupied width.
DeleteRemovesExactlyTheTire ==
    [][\A p \in Slots :
          /\ (/\ reqs[p].op = "deleteTire" /\ reqs[p].pc = "run"
              /\ OwnTireAsked(p) # {}
              /\ reqs'[p] # reqs[p]) =>
                (reqs'[p].pc = "done" /\ reqs'[p].status = 200)
          /\ (reqs[p].pc # "done" /\ Answered(p, "deleteTire", 200)') =>
                \E t \in tires :
                    /\ OwnTireAsked(p) = {t}
                    /\ reqs'[p].resBody.deletedTire = t
                    /\ tires' = tires \ {t}
                    /\ racks' = racks
                    /\ t.location # None
                    /\ \A i \in RackIndexes, row \in Rows :
                          Occupied(tires', racks[i].id, row) =
                             IF t.location = [rackId |-> racks[i].id, row |-> row]
                             THEN Occupied(tires, racks[i].id, row) - t.width
                             ELSE Occupied(tires, racks[i].id, row)]_vars

\* a tire was deleted from a row in which another tire of the account still
\* sits, while the other account's tire is stored
C21Witness ==
    \E p \in Slots :
        /\ Answered(p, "deleteTire", 200)
        /\ LET t == reqs[p].resBody.deletedTire
           IN  /\ t \notin tires
               /\ PlacedAt(tires, t.location.rackId, t.location.row) # {}
        /\ OtherTire \in tires

-----------------------------------------------------------------------------
(* C22 *)

\* the handler of a deleteTire request runs in this step, and the id asked
\* for is not the id of a tire of the caller
DeletesUnownedId(p) ==
    /\ reqs[p].op = "deleteTire" /\ reqs[p].pc = "run"
    /\ OwnTireAsked(p) = {}
    /\ reqs'[p] # reqs[p]

\* the request is answered NotFound in this step and the store is unchanged
NotFoundAndUnchanged(p) ==
    /\ reqs'[p].pc = "done" /\ reqs'[p].status = 404
    /\ tires' = tires /\ racks' = racks /\ nextTireId' = nextTireId

\* the id has the form of an id the store issues (the model writes 0 for a
\* text that has not)
WellFormedId(id) == id # 0

\* C22 as stated: deleteTire answers NotFound and changes nothing for
\* every id that is not the id of a tire of the caller.
UnownedIdIsNotFound ==
    [][\A p \in Slots : DeletesUnownedId(p) => NotFoundAndUnchanged(p)]_vars

\* C22, amended: deleteTire answers NotFound and changes nothing for every
\* well-formed id that is not the id of a tire of the caller (never issued,
\* issued to a tire of another account, or issued to a tire since deleted);
\* an id that is not well-formed is answered with a validation error, the
\* store unchanged as well.
UnownedWellFormedIdIsNotFound ==
    [][\A p \in Slots :
          DeletesUnownedId(p) =>
             IF WellFormedId(reqs[p].body.id)
             THEN NotFoundAndUnchanged(p)
             ELSE /\ reqs'[p].pc = "done" /\ reqs'[p].status = 400
                  /\ tires' = tires /\ racks' = racks /\ nextTireId' = nextTireId]_vars

\* the garage asked to delete the other account's tire and got NotFound; the
\* tire is still stored
C22Witness ==
    \E p \in Slots :
        /\ Answered(p, "deleteTire", 404)
        /\ reqs[p].body.id = OtherTire.id
        /\ OtherTire \in tires

-----------------------------------------------------------------------------
(* C23 *)

\* the lists of the views in which the tire appears
ListsShowing(views, t) ==
    {<<i, row>> \in (1..Len(views)) \X Rows :
        t \in (IF row = "front" THEN views[i].frontRowTires ELSE views[i].backRowTires)}

\* C23: an answer of listRacks holds one view per rack of the caller, in
\* creation order (the racks the caller had when the handler read them, racks
\* being only ever added); the front list of a view is exactly the set of the
\* caller's stored tires located at (that rack, front), its back list those at
\* (that rack, back), as the store is when the answer is sent; every placed
\* tire of the caller is in exactly one list of exactly one view; and no
\* stored rack carries the lists.
ListShowsEveryPlacedTireOnce ==
    /\ \A i \in RackIndexes :
          {"frontRowTires", "backRowTires"} \cap DOMAIN racks[i] = {}
    /\ \A p \in Slots :
          Answered(p, "listRacks", 200) =>
             LET views == reqs[p].resBody.populatedRacks
                 mine == RacksOf(reqs[p].user.id)
                 inventory == TiresOf(reqs[p].user.id)
             IN  /\ Len(views) <= Len(mine)
                 /\ \A i \in 1..Len(views) :
                       /\ [f \in DOMAIN mine[i] |-> views[i][f]] = mine[i]
                       /\ views[i].frontRowTires =
                             {t \in inventory :
                                 t.location = [rackId |-> mine[i].id, row |-> "front"]}
                       /\ views[i].backRowTires =
                             {t \in inventory :
                                 t.location = [rackId |-> mine[i].id, row |-> "back"]}
                 /\ \A t \in inventory :
                       t.location # None => Cardinality(ListsShowing(views, t)) = 1

-----------------------------------------------------------------------------
(* C24 *)

\* C24: racks are immutable and permanent.  Whatever step the server takes,
\* every rack stored before it is stored after it, at the same place in
\* creation order and with the same name, totalWidth, isDouble, reserved
\* brand and owner; only a createRack answered 201 adds a rack.
RacksArePermanent ==
    [][/\ Len(racks') >= Len(racks)
       /\ \A i \in RackIndexes :
             /\ racks'[i].id = racks[i].id
             /\ racks'[i].name = racks[i].name
             /\ racks'[i].totalWidth = racks[i].totalWidth
             /\ racks'[i].isDouble = racks[i].isDouble
             /\ racks'[i].reservedForBrand = racks[i].reservedForBrand
             /\ racks'[i].userId = racks[i].userId
       /\ racks' # racks =>
             \E p \in Slots : reqs[p].pc = "run" /\ Answered(p, "createRack", 201)']_vars

\* two racks are stored, the older one holds a tire, and a tire has just
\* been deleted
C24Witness ==
    \E p \in Slots :
        /\ Answered(p, "deleteTire", 200)
        /\ Len(racks) = 2
        /\ PlacedAt(tires, racks[1].id, "front") # {}

-----------------------------------------------------------------------------
(* C25 *)

\* C25: the lifecycle of a tire.  A step adds a tire only as the save of a
\* placeNewTire request that found a location: the tire carries that location,
\* an id no stored tire has, and is the answer (201).  A step removes a tire
\* only as a deleteTire answered 200 with that tire.  A tire stored before
\* and after a step has the same attributes and the same location (rack and
\* row): tires are never moved or re-placed.
TireLifecycle ==
    [][/\ \A t \in tires' \ tires :
             /\ \A u \in tires : u.id # t.id
             /\ \E p \in Slots :
                   /\ reqs[p].op = "placeNewTire" /\ reqs[p].pc = "save"
                   /\ reqs[p].foundLocation # None
                   /\ t.location = reqs[p].foundLocation
                   /\ Answered(p, "placeNewTire", 201)'
                   /\ reqs'[p].resBody = t
       /\ \A t \in tires \ tires' :
             /\ \A u \in tires' : u.id # t.id
             /\ \E p \in Slots :
                   /\ reqs[p].op = "deleteTire" /\ reqs[p].pc = "run"
                   /\ Answered(p, "deleteTire", 200)'
                   /\ reqs'[p].resBody.deletedTire = t
       /\ Cardinality(tires' \ tires) + Cardinality(tires \ tires') <= 1]_vars

\* a tire placed in a back row is still stored, where it was placed, after
\* the tire in front of it was deleted
C25Witness ==
    \E p \in Slots :
        /\ Answered(p, "deleteTire", 200)
        /\ reqs[p].resBody.deletedTire.location.row = "front"
        /\ \E t \in tires :
              /\ t.location.rackId = reqs[p].resBody.deletedTire.location.rackId
              /\ t.location.row = "back"

-----------------------------------------------------------------------------
(* C26 *)

\* the body of a placement request carries no catalog code, or an empty one
LacksCode(body) == body.eprelCode = Null \/ body.eprelCode = EmptyString

\* C26: a placeNewTire request with the expected credential and a missing
\* or empty catalog code is rejected with a validation error (400, "Le code
\* EPREL est requis.") by the first step of its handler: it never holds
\* catalog attributes, a rack snapshot, a tire snapshot or a location, it is
\* never at the reads or at the save, and the step that answers it leaves
\* racks and tires as they were.
MissingCodeIsRejectedFirst ==
    [][\A p \in Slots :
          (/\ reqs'[p].op = "placeNewTire"
           /\ reqs'[p].token = GoodToken
           /\ LacksCode(reqs'[p].body)) =>
             /\ reqs'[p].pc \in {"authSave", "run", "done"}
             /\ reqs'[p].tireData = None
             /\ reqs'[p].userRacks = <<>>
             /\ reqs'[p].storedTires = {}
             /\ reqs'[p].foundLocation = None
             /\ (reqs[p].pc = "run" /\ reqs'[p] # reqs[p]) =>
                   /\ reqs'[p].pc = "done"
                   /\ reqs'[p].status = 400
                   /\ reqs'[p].resBody = [message |-> "Le code EPREL est requis."]
                   /\ racks' = racks /\ tires' = tires /\ nextTireId' = nextTireId]_vars

\* a request without a catalog code was rejected while the garage has a rack
\* and a tire stored
C26Witness ==
    \E p \in Slots :
        /\ Answered(p, "placeNewTire", 400)
        /\ reqs[p].body.eprelCode = Null
        /\ reqs[p].tireData = None
        /\ \E i \in RackIndexes : racks[i].userId = reqs[p].user.id
        /\ TiresOf(reqs[p].user.id) # {}

-----------------------------------------------------------------------------
(* C27 *)

\* C27: a request whose Authorization header is not the expected credential
\* is answered 401 in the step in which it arrives; that step changes no
\* user, rack or tire, and the request never has a user, never is at a step
\* of a handler and never holds anything a handler reads.
UnauthorizedIsTurnedAway ==
    [][\A p \in Slots :
          (reqs'[p].op # "none" /\ reqs'[p].token # GoodToken) =>
             /\ reqs'[p].pc = "done"
             /\ reqs'[p].status = 401
             /\ reqs'[p].user = None
             /\ reqs'[p].tireData = None
             /\ reqs'[p].userRacks = <<>>
             /\ reqs'[p].storedTires = {}
             /\ reqs'[p].foundLocation = None
             /\ reqs[p].pc = "idle" =>
                   /\ users' = users /\ racks' = racks
                   /\ tires' = tires /\ nextTireId' = nextTireId]_vars

\* a deleteTire request without the expected credential was answered 401
\* while the garage has a tire stored
C27Witness ==
    \E p \in Slots :
        /\ Answered(p, "deleteTire", 401)
        /\ reqs[p].token = BadToken
        /\ \E t \in tires : t # OtherTire

-----------------------------------------------------------------------------
(* C28 *)

\* every tire stored so far is still stored: no tire has been deleted
NoTireDeleted == Cardinality(tires) = nextTireId - 1

\* the tires of one catalog code at (rack, row)
OfCodeAt(rackId, row, code) == {t \in PlacedAt(tires, rackId, row) : t.eprelCode = code}

\* C28: with requests one at a time and as long as no tire has been deleted,
\* every rack holds, of every catalog code, at most as many tires in its back
\* row as in its front row.
BackTiresAreMatched ==
    NoTireDeleted =>
        \A i \in RackIndexes : \A code \in {t.eprelCode : t \in tires} :
            Cardinality(OfCodeAt(racks[i].id, "back", code))
                <= Cardinality(OfCodeAt(racks[i].id, "front", code))

\* no tire has been deleted and a rack holds two tires of one code in front
\* and one behind: the third tire of the code found its back row matched
C28Witness ==
    /\ NoTireDeleted
    /\ \E i \in RackIndexes : \E code \in {t.eprelCode : t \in tires} :
          /\ Cardinality(OfCodeAt(racks[i].id, "front", code)) = 2
          /\ Cardinality(OfCodeAt(racks[i].id, "back", code)) = 1

-----------------------------------------------------------------------------
(* C29 *)

\* the rack may hold a tire of this brand in this row
RowAndBrandAllowed(rack, row, brand) ==
    /\ row = "back" => rack.isDouble
    /\ Admits(rack, brand)

\* C29: whatever the interleaving of the requests, every stored tire sits on
\* a stored rack that is double if the tire is in its back row and that is
\* unreserved or reserved for the tire's brand; and a placement that has
\* decided and not yet saved holds a location on a rack of its own snapshot
\* that allows the row and the brand and that is stored, field for field, as
\* the request read it.
RowAndBrandHoldUnderInterleaving ==
    /\ \A t \in tires :
          /\ t.location # None
          /\ \E i \in RackIndexes :
                /\ racks[i].id = t.location.rackId
                /\ RowAndBrandAllowed(racks[i], t.location.row, t.brand)
    /\ \A p \in Slots :
          reqs[p].pc = "save" =>
             \E k \in 1..Len(reqs[p].userRacks) :
                LET read == reqs[p].userRacks[k]
                IN  /\ read.id = reqs[p].foundLocation.rackId
                    /\ RowAndBrandAllowed(read, reqs[p].foundLocation.row,
                                          reqs[p].tireData.brand)
                    /\ \E i \in RackIndexes : racks[i] = read

\* a placement has decided on the back row of a reserved rack and has not
\* saved yet, while a deleteTire request that arrived after it has removed
\* the front tire it was paired with
C29Witness ==
    \E p, q \in Slots :
        /\ reqs[p].pc = "save"
        /\ reqs[p].foundLocation.row = "back"
        /\ \E i \in RackIndexes :
              racks[i].id = reqs[p].foundLocation.rackId /\ Reserved(racks[i])
        /\ Answered(q, "deleteTire", 200)
        /\ reqs[q].resBody.deletedTire \in reqs[p].storedTires

-----------------------------------------------------------------------------
(* C30 *)

\* the placements that have read the tires and not yet saved
BetweenReadAndWrite == {p \in Slots : reqs[p].pc = "save"}

\* C30: when at most one placement at a time is between its read of the
\* tires and its save, with createRack and deleteTire requests overlapping
\* it as they may, no row of a rack of positive totalWidth holds more than
\* totalWidth, and the tire of the placement that is about to save still fits
\* the row it was given, as the row is now.
CapacityHoldsWithPlacementsApart ==
    /\ Cardinality(BetweenReadAndWrite) <= 1
    /\ \A i \in RackIndexes : \A row \in Rows :
          racks[i].totalWidth > 0 =>
             racks[i].totalWidth - Occupied(tires, racks[i].id, row) >= 0
    /\ \A p \in BetweenReadAndWrite :
          \E i \in RackIndexes :
             /\ racks[i].id = reqs[p].foundLocation.rackId
             /\ racks[i].totalWidth
                   - Occupied(tires, racks[i].id, reqs[p].foundLocation.row)
                   >= reqs[p].tireData.width

\* a placement has saved its tire into a row after a tire it had read in
\* that row was deleted and a rack was created, both by requests that
\* overlapped it
C30Witness ==
    \E p \in Slots :
        /\ Answered(p, "placeNewTire", 201)
        /\ \E t \in reqs[p].storedTires :
              /\ t \notin tires
              /\ t.location = reqs[p].resBody.location
        /\ Len(reqs[p].userRacks) < Len(racks)

-----------------------------------------------------------------------------
(* C31 *)

\* a decision is kept in the slot
Tried(p) == reqs[p].op = "decide" /\ reqs[p].pc = "decided"

\* two decisions kept for the same snapshot, catalog code and brand
SameQuestion(p, q) ==
    /\ Tried(p) /\ Tried(q)
    /\ reqs[p].userRacks = reqs[q].userRacks
    /\ reqs[p].storedTires = reqs[q].storedTires
    /\ reqs[p].body.eprelCode = reqs[q].body.eprelCode
    /\ reqs[p].tireData.brand = reqs[q].tireData.brand

\* C31: monotonicity in width.  Of two decisions taken on the same snapshot
\* for the same catalog code and brand, if the one for the narrower tire
\* found no location then the one for the wider tire found none either
\* (so a location found for a width means one is found for every smaller
\* width).
RefusalIsMonotoneInWidth ==
    \A p, q \in Slots :
        (/\ SameQuestion(p, q)
         /\ reqs[p].tireData.width > 0
         /\ reqs[p].tireData.width <= reqs[q].tireData.width
         /\ reqs[p].foundLocation = None) =>
            reqs[q].foundLocation = None

\* a tire is refused, and a wider one with it, on a snapshot in which a rack
\* that admits the brand is wide enough for the narrower tire when empty:
\* the refusal comes from the tires stored, not from the size of the racks
C31Witness ==
    \E p, q \in Slots :
        /\ SameQuestion(p, q)
        /\ reqs[p].tireData.width < reqs[q].tireData.width
        /\ reqs[p].foundLocation = None /\ reqs[q].foundLocation = None
        /\ reqs[p].storedTires # {}
        /\ \E k \in 1..Len(reqs[p].userRacks) :
              /\ Admits(reqs[p].userRacks[k], reqs[p].tireData.brand)
              /\ reqs[p].userRacks[k].totalWidth >= reqs[p].tireData.width

-----------------------------------------------------------------------------
(* C32 *)

\* the snapshot of q is the snapshot of p with one rack more, last in
\* creation order and holding no tire, and both decisions are for the same
\* tire
OneRackMore(p, q) ==
    /\ Tried(p) /\ Tried(q)
    /\ reqs[p].body = reqs[q].body
    /\ reqs[p].tireData = reqs[q].tireData
    /\ reqs[p].storedTires = reqs[q].storedTires
    /\ Len(reqs[q].userRacks) = Len(reqs[p].userRacks) + 1
    /\ SubSeq(reqs[q].userRacks, 1, Len(reqs[p].userRacks)) = reqs[p].userRacks
    /\ \A t \in reqs[q].storedTires :
          t.location.rackId # reqs[q].userRacks[Len(reqs[q].userRacks)].id

\* C32: a rack more, created last and empty, leaves a placement that
\* succeeded where it was (same rack, same row); a refusal it leaves a
\* refusal or turns into a placement in the front row of the new rack.
NewRackKeepsPlacements ==
    \A p, q \in Slots :
        OneRackMore(p, q) =>
            IF reqs[p].foundLocation # None
            THEN reqs[q].foundLocation = reqs[p].foundLocation
            ELSE \/ reqs[q].foundLocation = None
                 \/ reqs[q].foundLocation =
                       [rackId |-> reqs[q].userRacks[Len(reqs[q].userRacks)].id,
                        row |-> "front"]

\* a tire refused on a snapshot of one rack, full in front, is given the
\* front row of a double rack created afterwards
C32Witness ==
    \E p, q \in Slots :
        /\ OneRackMore(p, q)
        /\ reqs[p].userRacks # <<>> /\ reqs[p].storedTires # {}
        /\ reqs[p].foundLocation = None
        /\ reqs[q].foundLocation # None
        /\ reqs[q].userRacks[Len(reqs[q].userRacks)].isDouble

-----------------------------------------------------------------------------
(* C33 *)

\* the outcomes the server sends
Outcomes == {200, 201, 400, 401, 404, 500}

\* C33: every request the server has accepted is answered in the end, and
\* answered once: no answer is recorded for a request before the step that
\* ends it, that step records one outcome, and after it the request does
\* nothing but leave.
EveryRequestIsAnsweredOnce ==
    /\ \A p \in Slots : (reqs[p].pc # "idle") ~> (reqs[p].pc = "done")
    /\ [][\A p \in Slots :
             /\ reqs'[p].pc # "done" =>
                   reqs'[p].status = 0 /\ reqs'[p].resBody = None
             /\ reqs'[p].pc = "done" =>
                   reqs'[p].status \in Outcomes /\ reqs'[p].resBody # None
             /\ reqs[p].pc = "done" =>
                   reqs'[p] = reqs[p] \/ reqs'[p] = IdleReq]_vars

\* a placement whose lookup raised was answered 500 while another request
\* was in flight
C33Witness ==
    \E p, q \in Slots :
        /\ Answered(p, "placeNewTire", 500)
        /\ reqs[p].user # None
        /\ reqs[q].pc \notin {"idle", "done"}

-----------------------------------------------------------------------------
(* C34 *)

\* the step is a step of a listRacks or searchTires request in slot p: its
\* arrival, a step of authenticate or of its handler, or its leaving
ReadingStep(p) ==
    /\ reqs'[p] # reqs[p]
    /\ \/ reqs[p].op \in {"listRacks", "searchTires"}
       \/ reqs'[p].op \in {"listRacks", "searchTires"}

\* C34: listRacks and searchTires are read-only.  No step of such a
\* request, whatever its argument and its outcome, changes a rack or a tire:
\* from its arrival to its answer the racks and the tires, with all their
\* fields, stay what they were.
ReadsChangeNothing ==
    [][\A p \in Slots :
          ReadingStep(p) => racks' = racks /\ tires' = tires /\ nextTireId' = nextTireId]_vars

\* a search with an empty query was answered with the error while the
\* garage has a rack and a tire stored
C34Witness ==
    \E p \in Slots :
        /\ Answered(p, "searchTires", 400)
        /\ reqs[p].body.query = EmptyString
        /\ TiresOf(reqs[p].user.id) # {}
        /\ RacksOf(reqs[p].user.id) # <<>>


-----------------------------------------------------------------------------
(* C35: the catalog cache *)

\* request p is in a lookup of a code the cache holds
CacheHit(p) ==
    /\ reqs[p].pc = "run" /\ reqs[p].op = "placeNewTire"
    /\ Truthy(reqs[p].body.eprelCode)
    /\ reqs[p].body.eprelCode \in DOMAIN eprelDataCache

\* request p is in a lookup of a code the cache does not hold
CacheMiss(p) ==
    /\ reqs[p].pc = "run" /\ reqs[p].op = "placeNewTire"
    /\ Truthy(reqs[p].body.eprelCode)
    /\ reqs[p].body.eprelCode \notin DOMAIN eprelDataCache

\* the complete attribute records a lookup of the code can produce
CompleteRecords(code) ==
    {ScrapedTireInfo(page) : page \in PageRevisions(code)} \ {None}

\* the cache keeps every entry it has, as it is
EntriesKept ==
    \A code \in DOMAIN eprelDataCache :
        /\ code \in DOMAIN eprelDataCache'
        /\ eprelDataCache'[code] = eprelDataCache[code]

\* a code enters the cache only in the step that ends a lookup of it, with a
\* complete attribute record of that code
StoredByCompleteLookup ==
    \A code \in DOMAIN eprelDataCache' \ DOMAIN eprelDataCache :
        /\ eprelDataCache'[code] \in CompleteRecords(code)
        /\ \E p \in Slots :
              /\ reqs[p].pc = "scraping" /\ reqs[p].body.eprelCode = code
              /\ reqs'[p].pc # "scraping"

\* a lookup of a cached code goes on with the cached attributes, the source
\* not contacted
HitAnswersFromCache ==
    \A p \in Slots :
        CacheHit(p) /\ reqs'[p] # reqs[p] =>
            /\ reqs'[p].pc = "readRacks"
            /\ reqs'[p].tireData = eprelDataCache[reqs[p].body.eprelCode]

\* a lookup that found no attributes stores nothing
FailedLookupStoresNothing ==
    \A p \in Slots :
        reqs[p].pc = "scraping" /\ reqs'[p].pc = "done" /\ reqs'[p].status = 404 =>
            eprelDataCache' = eprelDataCache

\* a lookup of a code the cache does not hold goes to the source (or finds
\* no browser to go there with); it is not answered from the cache
MissContactsSource ==
    \A p \in Slots :
        CacheMiss(p) /\ reqs'[p] # reqs[p] =>
            \/ reqs'[p].pc = "scraping"
            \/ reqs'[p].pc = "done" /\ reqs'[p].status = 404

\* C35: a code is stored in the cache only by a lookup that produced a complete
\* attribute record; once a code is cached, every later lookup of it returns
\* the cached attributes without contacting the source, and the entry is never
\* evicted or overwritten; a failed lookup stores nothing, so a later lookup
\* of the same code contacts the source again.
CatalogCacheIsStable ==
    [][/\ EntriesKept
       /\ StoredByCompleteLookup
       /\ HitAnswersFromCache
       /\ FailedLookupStoresNothing
       /\ MissContactsSource]_vars

=============================================================================
